---- MODULE Spec2Model ----
(***************************************************************************)
(* A model of justdo's behavioural-analytics and prompt-orchestration      *)
(* layer: the user profile store (src/todo/user_profile.py), the model     *)
(* invocation engine and feedback orchestrator (src/todo/emotion.py) and   *)
(* the OpenAI handler (src/todo/ai.py).                                    *)
(*                                                                         *)
(* Python values are modelled as follows.  None is the empty tuple and a   *)
(* present optional value v is <<v>>.  A text string whose characters      *)
(* matter is the tuple of its Unicode code points; a byte string is the    *)
(* tuple of its bytes.  A calendar date is its ordinal day in a non-leap   *)
(* year and its isoformat() string is the tuple <<year, month, day>>.      *)
(***************************************************************************)
EXTENDS Integers, Sequences, FiniteSets, TLC

VARIABLES
    now,        \* the system clock: [day |-> ordinal, hour |-> 0..23]
    locale,     \* the platform's preferred text encoding (read_text's default)
    file,       \* the profile file on disk
    data,       \* UserProfile.data of the session's profile object
    raised,     \* the exception the last operation raised, or "none"
    lastOp,     \* the last operation of the profile session
    events,     \* the number of record_task calls made so far
    saves,      \* the number of save calls made so far
    peak,       \* the last get_peak_hours query: <<>> or <<[top_n, hours]>>
    query,      \* the last other read-only query and its result
    taskText,   \* the task text at hand, as the tuple of its code points
    apiKey,     \* the environment variable OPENAI_API_KEY ("" when unset)
    handler,    \* whether the caller holds an AIHandler instance
    call,       \* the last call into the orchestrator and its outcome
    gen,        \* the generator object the last streaming call handed out
    par,        \* the event loop around one generate_parallel call
    peer,       \* UserProfile.data of a second profile object on the same path
    written     \* the contents the two objects have written to the path, in order

peerVars == <<peer, written>>
profileVars ==
    <<now, locale, file, data, raised, lastOp, events, saves, peak, query, taskText,
      peerVars>>
aiVars == <<apiKey, handler, call, gen>>
vars == <<profileVars, aiVars, par>>

----------------------------------------------------------------------------
(* Bounds of the model *)

\* the clock runs over the days StartDay .. StartDay + MaxDay
StartDay == 30
MaxDay == 3
\* record_task calls per behaviour
MaxEvents == 3
\* record_task calls per behaviour of the persistence specification
MaxFileEvents == 2
\* save calls per behaviour
MaxSaves == 2
\* completions per behaviour of the peak-hours specification
MaxPeakEvents == 4
\* get_peak_hours is asked for top_n in 0 .. MaxTopN
MaxTopN == 3
\* generate_parallel is handed at most MaxPrompts prompts
MaxPrompts == 3
\* the suggestion and chat paths are handed at most MaxTodos tasks
MaxTodos == 2
\* a provider stream carries at most MaxChunks chunks
MaxChunks == 2
\* detect_emotion is given texts of at most MaxTextLen characters
MaxTextLen == 4
\* record_task calls of two sessions on one path, together
MaxSessionEvents == 2

\* the hours at which the clock is read in the profile specification
ClockHours == {9, 22}
\* the hours at which tasks are completed in the peak-hours specification
PeakClockHours == {0, 5, 9, 14, 22, 23}
AllHours == 0..23

----------------------------------------------------------------------------
(* Python values *)

None == <<>>
Some(v) == <<v>>

Max(a, b) == IF a >= b THEN a ELSE b

RECURSIVE SumSeq(_)
SumSeq(s) == IF s = <<>> THEN 0 ELSE Head(s) + SumSeq(Tail(s))

\* date.isoformat() and date.fromisoformat() in a non-leap year
MonthDays == <<31, 28, 31, 30, 31, 30, 31, 31, 30, 31, 30, 31>>
DaysBefore(m) == SumSeq(SubSeq(MonthDays, 1, m - 1))
IsoFormat(ordinal) ==
    LET m == CHOOSE k \in 1..12 :
                 DaysBefore(k) < ordinal /\ ordinal <= DaysBefore(k) + MonthDays[k]
    IN  <<2025, m, ordinal - DaysBefore(m)>>
FromIsoFormat(iso) == DaysBefore(iso[2]) + iso[3]

----------------------------------------------------------------------------
(* Text encodings.  save() writes the document as UTF-8; _load_or_create   *)
(* reads it with read_text(), which decodes with the platform's preferred  *)
(* encoding.                                                               *)

Locales == {"utf-8", "latin-1", "ascii"}

\* UTF-8 of one code point of the basic multilingual plane
Utf8Char(cp) ==
    IF cp < 128 THEN <<cp>>
    ELSE IF cp < 2048 THEN <<192 + (cp \div 64), 128 + (cp % 64)>>
    ELSE <<224 + (cp \div 4096), 128 + ((cp \div 64) % 64), 128 + (cp % 64)>>

RECURSIVE Utf8Encode(_)
Utf8Encode(text) ==
    IF text = <<>> THEN <<>> ELSE Utf8Char(Head(text)) \o Utf8Encode(Tail(text))

\* the outcome of a decode: the text, or a UnicodeDecodeError
Decoded(text) == [ok |-> TRUE, text |-> text]
DecodeError == [ok |-> FALSE, text |-> <<>>]

\* bytes -> code points under UTF-8
RECURSIVE Utf8Decode(_)
Utf8Decode(bytes) ==
    IF bytes = <<>> THEN Decoded(<<>>)
    ELSE IF bytes[1] < 128
         THEN LET rest == Utf8Decode(Tail(bytes))
              IN  IF rest.ok THEN Decoded(<<bytes[1]>> \o rest.text) ELSE DecodeError
    ELSE IF /\ bytes[1] >= 194 /\ bytes[1] < 224 /\ Len(bytes) >= 2
            /\ bytes[2] \in 128..191
         THEN LET rest == Utf8Decode(SubSeq(bytes, 3, Len(bytes)))
                  cp == (bytes[1] - 192) * 64 + (bytes[2] - 128)
              IN  IF rest.ok THEN Decoded(<<cp>> \o rest.text) ELSE DecodeError
    ELSE IF /\ bytes[1] >= 224 /\ bytes[1] < 240 /\ Len(bytes) >= 3
            /\ bytes[2] \in 128..191 /\ bytes[3] \in 128..191
         THEN LET rest == Utf8Decode(SubSeq(bytes, 4, Len(bytes)))
                  cp == (bytes[1] - 224) * 4096 + (bytes[2] - 128) * 64 + (bytes[3] - 128)
              IN  IF rest.ok THEN Decoded(<<cp>> \o rest.text) ELSE DecodeError
    ELSE DecodeError

\* bytes -> code points under the preferred encoding enc
Decode(bytes, enc) ==
    IF enc = "utf-8" THEN Utf8Decode(bytes)
    ELSE IF enc = "latin-1" THEN Decoded(bytes)
    ELSE IF \A i \in 1..Len(bytes) : bytes[i] < 128 THEN Decoded(bytes) ELSE DecodeError

----------------------------------------------------------------------------
(* Task texts and categories (UserProfile._classify_task) *)

\* the category labels, as code points
CatWork == <<24037, 20316>>
CatStudy == <<23398, 20064>>
CatExercise == <<36816, 21160>>
CatOther == <<20854, 20182>>

\* the keyword tables; a keyword is named by its romanised form
work_keywords == {"huiyi", "baogao", "wendang", "daima", "bug", "xiufu", "youjian"}
study_keywords == {"xuexi", "yuedu", "kecheng", "lianxi", "biji"}
exercise_keywords == {"pao", "jianshen", "yundong", "yujia", "duanlian"}

\* a task text is the set of the keywords that occur in text.lower()
TodoTexts == {{}, {"bug"}, {"xuexi"}, {"pao"}, {"huiyi", "xuexi"}, {"biji", "yujia"}}

_classify_task(text) ==
    IF text \cap work_keywords # {} THEN CatWork
    ELSE IF text \cap study_keywords # {} THEN CatStudy
    ELSE IF text \cap exercise_keywords # {} THEN CatExercise
    ELSE CatOther

----------------------------------------------------------------------------
(* The profile document *)

VERSION == 1
MAX_SIZE == 10 * 1024

_create_new(clock) ==
    [ version |-> VERSION,
      created_at |-> IsoFormat(clock.day),
      last_updated |-> <<IsoFormat(clock.day), clock.hour>>,
      stats |-> [ total_tasks |-> 0,
                  completed_tasks |-> 0,
                  current_streak |-> 0,
                  longest_streak |-> 0,
                  last_completed_date |-> None ],
      hourly_activity |-> [h \in 0..23 |-> 0],
      task_categories |-> <<>>,
      anxiety_patterns |-> [ high_anxiety_count |-> 0, detected_keywords |-> <<>> ],
      recent_7_days |-> [ tasks_completed |-> 0, most_active_hour |-> None ] ]

\* the value of data while no profile object exists
Unconstructed == [version |-> 0]

\* an _update_hourly_activity that counts in the slot after the current hour
_update_hourly_activity_next_slot(d, clock) ==
    LET hour == (clock.hour + 1) % 24
        activity == [d.hourly_activity EXCEPT ![hour] = @ + 1]
        current_max == d.recent_7_days.most_active_hour
    IN  [d EXCEPT
           !.hourly_activity = activity,
           !.recent_7_days.most_active_hour =
               IF current_max = None \/ activity[hour] > activity[current_max[1]]
               THEN Some(hour) ELSE @]

\* an _update_hourly_activity that never moves most_active_hour once it is set
_update_hourly_activity_first_hour(d, clock) ==
    LET hour == clock.hour
        activity == [d.hourly_activity EXCEPT ![hour] = @ + 1]
        current_max == d.recent_7_days.most_active_hour
    IN  [d EXCEPT
           !.hourly_activity = activity,
           !.recent_7_days.most_active_hour =
               IF current_max = None THEN Some(hour) ELSE @]

_update_hourly_activity(d, clock) ==
    LET hour == clock.hour
        activity == [d.hourly_activity EXCEPT ![hour] = @ + 1]
        current_max == d.recent_7_days.most_active_hour
    IN  [d EXCEPT
           !.hourly_activity = activity,
           !.recent_7_days.most_active_hour =
               IF current_max = None \/ activity[hour] > activity[current_max[1]]
               THEN Some(hour) ELSE @]

\* _update_streak without the reset: a completion after a gap continues the streak
_update_streak_no_reset(d, clock) ==
    LET today == IsoFormat(clock.day)
        current == d.stats.current_streak + 1
    IN  IF d.stats.last_completed_date = Some(today) THEN d
        ELSE [d EXCEPT
                !.stats.current_streak = current,
                !.stats.longest_streak = IF current > @ THEN current ELSE @,
                !.stats.last_completed_date = Some(today)]

\* an _update_streak whose longest_streak follows current_streak
_update_streak_longest_follows(d, clock) ==
    LET today == IsoFormat(clock.day)
        last_completed == d.stats.last_completed_date
        yesterday == IsoFormat(FromIsoFormat(today) - 1)
        current == IF last_completed = Some(yesterday)
                   THEN d.stats.current_streak + 1
                   ELSE 1
    IN  IF last_completed = Some(today) THEN d
        ELSE [d EXCEPT
                !.stats.current_streak = current,
                !.stats.longest_streak = current,
                !.stats.last_completed_date = Some(today)]

_update_streak(d, clock) ==
    LET today == IsoFormat(clock.day)
        last_completed == d.stats.last_completed_date
        yesterday == IsoFormat(FromIsoFormat(today) - 1)
        current == IF last_completed = Some(yesterday)
                   THEN d.stats.current_streak + 1
                   ELSE 1
    IN  IF last_completed = Some(today) THEN d
        ELSE [d EXCEPT
                !.stats.current_streak = current,
                !.stats.longest_streak = IF current > @ THEN current ELSE @,
                !.stats.last_completed_date = Some(today)]

_update_categories(d, text, action) ==
    LET category == _classify_task(text)
        cats == d.task_categories
        entry == IF category \in DOMAIN cats THEN cats[category]
                 ELSE [count |-> 0, completed |-> 0]
        updated == [ count |-> entry.count + 1,
                     completed |-> IF action = "complete"
                                   THEN entry.completed + 1 ELSE entry.completed ]
    IN  [d EXCEPT !.task_categories =
            [c \in (DOMAIN cats) \cup {category} |->
                IF c = category THEN updated ELSE cats[c]]]

\* a record_task whose complete also counts a new task
record_task_complete_counts_task(d, text, action, clock) ==
    LET after ==
          IF action = "add"
          THEN [d EXCEPT !.stats.total_tasks = @ + 1]
          ELSE IF action = "complete"
          THEN LET d1 == [d EXCEPT !.stats.completed_tasks = @ + 1,
                                   !.stats.total_tasks = @ + 1]
                   d2 == _update_hourly_activity(d1, clock)
                   d3 == _update_streak(d2, clock)
                   d4 == _update_categories(d3, text, "complete")
               IN  [d4 EXCEPT !.recent_7_days.tasks_completed = @ + 1]
          ELSE IF action = "delete"
          THEN [d EXCEPT !.stats.total_tasks = Max(0, @ - 1)]
          ELSE d
    IN  [after EXCEPT !.last_updated = <<IsoFormat(clock.day), clock.hour>>]

\* a record_task whose add also counts the task in its category
record_task_add_categorised(d, text, action, clock) ==
    LET after ==
          IF action = "add"
          THEN _update_categories([d EXCEPT !.stats.total_tasks = @ + 1],
                                  text, "add")
          ELSE IF action = "complete"
          THEN LET d1 == [d EXCEPT !.stats.completed_tasks = @ + 1]
                   d2 == _update_hourly_activity(d1, clock)
                   d3 == _update_streak(d2, clock)
                   d4 == _update_categories(d3, text, "complete")
               IN  [d4 EXCEPT !.recent_7_days.tasks_completed = @ + 1]
          ELSE IF action = "delete"
          THEN [d EXCEPT !.stats.total_tasks = Max(0, @ - 1)]
          ELSE d
    IN  [after EXCEPT !.last_updated = <<IsoFormat(clock.day), clock.hour>>]

\* a record_task whose delete has no floor
record_task_delete_unfloored(d, text, action, clock) ==
    LET after ==
          IF action = "add"
          THEN [d EXCEPT !.stats.total_tasks = @ + 1]
          ELSE IF action = "complete"
          THEN LET d1 == [d EXCEPT !.stats.completed_tasks = @ + 1]
                   d2 == _update_hourly_activity(d1, clock)
                   d3 == _update_streak(d2, clock)
                   d4 == _update_categories(d3, text, "complete")
               IN  [d4 EXCEPT !.recent_7_days.tasks_completed = @ + 1]
          ELSE IF action = "delete"
          THEN [d EXCEPT !.stats.total_tasks = @ - 1]
          ELSE d
    IN  [after EXCEPT !.last_updated = <<IsoFormat(clock.day), clock.hour>>]

\* a record_task whose delete takes a completion back
record_task_delete_uncompletes(d, text, action, clock) ==
    LET after ==
          IF action = "add"
          THEN [d EXCEPT !.stats.total_tasks = @ + 1]
          ELSE IF action = "complete"
          THEN LET d1 == [d EXCEPT !.stats.completed_tasks = @ + 1]
                   d2 == _update_hourly_activity(d1, clock)
                   d3 == _update_streak(d2, clock)
                   d4 == _update_categories(d3, text, "complete")
               IN  [d4 EXCEPT !.recent_7_days.tasks_completed = @ + 1]
          ELSE IF action = "delete"
          THEN [d EXCEPT !.stats.total_tasks = Max(0, @ - 1),
                         !.stats.completed_tasks = Max(0, @ - 1)]
          ELSE d
    IN  [after EXCEPT !.last_updated = <<IsoFormat(clock.day), clock.hour>>]

record_task(d, text, action, clock) ==
    LET after ==
          IF action = "add"
          THEN [d EXCEPT !.stats.total_tasks = @ + 1]
          ELSE IF action = "complete"
          THEN LET d1 == [d EXCEPT !.stats.completed_tasks = @ + 1]
                   d2 == _update_hourly_activity(d1, clock)
                   d3 == _update_streak(d2, clock)
                   d4 == _update_categories(d3, text, "complete")
               IN  [d4 EXCEPT !.recent_7_days.tasks_completed = @ + 1]
          ELSE IF action = "delete"
          THEN [d EXCEPT !.stats.total_tasks = Max(0, @ - 1)]
          ELSE d
    IN  [after EXCEPT !.last_updated = <<IsoFormat(clock.day), clock.hour>>]

\* A float that is the quotient of two small integers is modelled as the
\* fraction in lowest terms: two such quotients are the same float exactly
\* when they are the same fraction.
RECURSIVE GCD(_, _)
GCD(a, b) == IF b = 0 THEN a ELSE GCD(b, a % b)

Float(num, den) == [exc |-> "none", num |-> num, den |-> den]
ZeroDivisionError == [exc |-> "ZeroDivisionError", num |-> 0, den |-> 0]

\* a / b of two non-negative ints
TrueDiv(a, b) ==
    IF b = 0 THEN ZeroDivisionError
    ELSE Float(a \div GCD(a, b), b \div GCD(a, b))

\* get_completion_rate without its guard
get_completion_rate_unguarded(d) ==
    TrueDiv(d.stats.completed_tasks, d.stats.total_tasks)

get_completion_rate(d) ==
    LET total == d.stats.total_tasks
        completed == d.stats.completed_tasks
    IN  IF total = 0 THEN Float(0, 1)
        ELSE TrueDiv(completed, total)

----------------------------------------------------------------------------
(* get_peak_hours: list.sort(key=count, reverse=True) is stable, so hours  *)
(* of equal count keep their ascending order.                              *)

\* an insertion that puts x in front of the pairs of equal count
RECURSIVE InsertDescUnstable(_, _)
InsertDescUnstable(x, sorted) ==
    IF sorted = <<>> THEN <<x>>
    ELSE IF Head(sorted)[2] > x[2]
         THEN <<Head(sorted)>> \o InsertDescUnstable(x, Tail(sorted))
    ELSE <<x>> \o sorted

\* insert pair x behind every pair whose count is at least x's
RECURSIVE InsertDesc(_, _)
InsertDesc(x, sorted) ==
    IF sorted = <<>> THEN <<x>>
    ELSE IF Head(sorted)[2] >= x[2] THEN <<Head(sorted)>> \o InsertDesc(x, Tail(sorted))
    ELSE <<x>> \o sorted

RECURSIVE SortDescFrom(_, _, _)
SortDescFrom(indexed, i, sorted) ==
    IF i > Len(indexed) THEN sorted
    ELSE SortDescFrom(indexed, i + 1, InsertDesc(indexed[i], sorted))

SortByCountDesc(indexed) == SortDescFrom(indexed, 1, <<>>)

RECURSIVE KeepPositive(_)
KeepPositive(pairs) ==
    IF pairs = <<>> THEN <<>>
    ELSE IF Head(pairs)[2] > 0 THEN <<Head(pairs)[1]>> \o KeepPositive(Tail(pairs))
    ELSE KeepPositive(Tail(pairs))

get_peak_hours(d, top_n) ==
    LET activity == d.hourly_activity
        indexed == [i \in 1..24 |-> <<i - 1, activity[i - 1]>>]
        total == SumSeq([i \in 1..24 |-> activity[i - 1]])
        sorted == SortByCountDesc(indexed)
    IN  IF total = 0 THEN <<>>
        ELSE KeepPositive(SubSeq(sorted, 1, IF top_n < 24 THEN top_n ELSE 24))

----------------------------------------------------------------------------
(* The profile file: json.dumps / write_text and read_text / json.loads *)

\* a JSON value that may be null
JsonNull == [t |-> "null"]
JsonOf(optional) == IF optional = None THEN JsonNull ELSE [t |-> "value", v |-> optional[1]]
PyOf(json) == IF json = JsonNull THEN None ELSE Some(json.v)

NoFile == [kind |-> "absent", junk |-> <<>>, doc |-> <<>>]
Unreadable == [kind |-> "unreadable", junk |-> <<>>, doc |-> <<>>]
\* content that is no JSON text: an empty file, and a file of one byte 0xFF
Garbage(bytes) == [kind |-> "invalid", junk |-> bytes, doc |-> <<>>]
\* the JSON text "[]"
JsonArray == [kind |-> "array", junk |-> <<>>, doc |-> <<>>]
JsonObject(doc) == [kind |-> "object", junk |-> <<>>, doc |-> doc]

\* the files a session may find at its path before the first save
InitialFiles ==
    { NoFile, Unreadable, Garbage(<<>>), Garbage(<<255>>), JsonArray,
      JsonObject([version |-> VERSION + 1]), JsonObject([created_at |-> "x"]) }

\* json.dumps(self.data, ensure_ascii=False) followed by encode('utf-8'):
\* the category labels are the only non-ASCII text of the document
Dumps(d) ==
    [d EXCEPT
       !.stats.last_completed_date = JsonOf(@),
       !.recent_7_days.most_active_hour = JsonOf(@),
       !.anxiety_patterns.detected_keywords =
           [i \in 1..Len(@) |-> Utf8Encode(@[i])],
       !.task_categories =
           LET cats == d.task_categories
           IN  [b \in {Utf8Encode(c) : c \in DOMAIN cats} |->
                   cats[CHOOSE c \in DOMAIN cats : Utf8Encode(c) = b]]]

\* a profile document of this version whose detected_keywords hold three
\* hundred ASCII strings of 32 characters: more than MAX_SIZE bytes
OversizedFile ==
    JsonObject(Dumps([_create_new([day |-> StartDay, hour |-> 9]) EXCEPT
                         !.anxiety_patterns.detected_keywords =
                             [i \in 1..300 |-> [j \in 1..32 |-> 97]]]))

\* the byte strings of a file that read_text has to decode
TextBytes(f) ==
    IF f.kind = "invalid" THEN {f.junk}
    ELSE IF f.kind = "object" /\ "task_categories" \in DOMAIN f.doc
         THEN DOMAIN f.doc.task_categories
              \cup { f.doc.anxiety_patterns.detected_keywords[i] :
                         i \in 1..Len(f.doc.anxiety_patterns.detected_keywords) }
    ELSE {}

\* json.loads of a saved document whose text was decoded with enc
Loads(doc, enc) ==
    [doc EXCEPT
       !.stats.last_completed_date = PyOf(@),
       !.recent_7_days.most_active_hour = PyOf(@),
       !.anxiety_patterns.detected_keywords =
           [i \in 1..Len(@) |-> Decode(@[i], enc).text],
       !.task_categories =
           LET cats == doc.task_categories
           IN  [c \in {Decode(b, enc).text : b \in DOMAIN cats} |->
                   cats[CHOOSE b \in DOMAIN cats : Decode(b, enc).text = c]]]

\* a _load_or_create that writes the profile it creates for an absent file
_load_or_create_persisting(f, enc, clock) ==
    IF f.kind = "absent"
    THEN [exc |-> "none", data |-> _create_new(clock),
          file |-> JsonObject(Dumps(_create_new(clock)))]
    ELSE IF f.kind = "unreadable"
    THEN [exc |-> "PermissionError", data |-> Unconstructed, file |-> f]
    ELSE IF \E b \in TextBytes(f) : ~Decode(b, enc).ok
    THEN [exc |-> "UnicodeDecodeError", data |-> Unconstructed, file |-> f]
    ELSE IF f.kind = "invalid"
    THEN [exc |-> "none", data |-> _create_new(clock), file |-> f]
    ELSE IF f.kind = "array"
    THEN [exc |-> "AttributeError", data |-> Unconstructed, file |-> f]
    ELSE IF "version" \notin DOMAIN f.doc \/ f.doc.version # VERSION
    THEN [exc |-> "none", data |-> _create_new(clock), file |-> f]
    ELSE [exc |-> "none", data |-> Loads(f.doc, enc), file |-> f]

\* _load_or_create(): the exception or the data, and the file it leaves at the
\* path
_load_or_create(f, enc, clock) ==
    IF f.kind = "absent"
    THEN [exc |-> "none", data |-> _create_new(clock), file |-> f]
    ELSE IF f.kind = "unreadable"
    THEN [exc |-> "PermissionError", data |-> Unconstructed, file |-> f]
    ELSE IF \E b \in TextBytes(f) : ~Decode(b, enc).ok
    THEN [exc |-> "UnicodeDecodeError", data |-> Unconstructed, file |-> f]
    ELSE IF f.kind = "invalid"
    THEN [exc |-> "none", data |-> _create_new(clock), file |-> f]
    ELSE IF f.kind = "array"
    THEN [exc |-> "AttributeError", data |-> Unconstructed, file |-> f]
    ELSE IF "version" \notin DOMAIN f.doc \/ f.doc.version # VERSION
    THEN [exc |-> "none", data |-> _create_new(clock), file |-> f]
    ELSE [exc |-> "none", data |-> Loads(f.doc, enc), file |-> f]

\* the number of decimal digits of n
RECURSIVE Digits(_)
Digits(n) == IF n < 10 THEN 1 ELSE 1 + Digits(n \div 10)

\* len(json.dumps(_create_new(), ensure_ascii=False).encode('utf-8'))
FreshBytes == 465

\* the bytes of the entries of task_categories with a key in S, less separators
RECURSIVE CatBytes(_, _)
CatBytes(cats, S) ==
    IF S = {} THEN 0
    ELSE LET c == CHOOSE x \in S : TRUE
         IN  Len(Utf8Encode(c)) + 30 + Digits(cats[c].count)
             + Digits(cats[c].completed) + CatBytes(cats, S \ {c})

\* the sum of s[lo] .. s[hi]
RECURSIVE SumRange(_, _, _)
SumRange(s, lo, hi) ==
    IF lo > hi THEN 0
    ELSE IF lo = hi THEN s[lo]
    ELSE SumRange(s, lo, (lo + hi) \div 2) + SumRange(s, (lo + hi) \div 2 + 1, hi)

\* the bytes of the entries of detected_keywords, with their separators
KeywordBytes(keywords) ==
    IF keywords = <<>> THEN 0
    ELSE SumRange([i \in 1..Len(keywords) |-> Len(Utf8Encode(keywords[i])) + 2],
                  1, Len(keywords))
         + 2 * (Len(keywords) - 1)

\* len(content.encode('utf-8')) of the document of d
ByteLen(d) ==
    LET cats == d.task_categories
        n == Cardinality(DOMAIN cats)
        hourly == SumSeq([i \in 1..24 |-> Digits(d.hourly_activity[i - 1]) - 1])
        counters == (Digits(d.stats.total_tasks) - 1) + (Digits(d.stats.completed_tasks) - 1)
                    + (Digits(d.stats.current_streak) - 1) + (Digits(d.stats.longest_streak) - 1)
                    + (Digits(d.recent_7_days.tasks_completed) - 1)
        last == IF d.stats.last_completed_date = None THEN 0 ELSE 8
        active == IF d.recent_7_days.most_active_hour = None THEN 0
                  ELSE Digits(d.recent_7_days.most_active_hour[1]) - 4
    IN  FreshBytes + hourly + counters + last + active + CatBytes(cats, DOMAIN cats)
        + (IF n > 1 THEN 2 * (n - 1) ELSE 0)
        + KeywordBytes(d.anxiety_patterns.detected_keywords)

\* self._cleanup(): a placeholder that changes nothing
_cleanup(d) == d

\* save(): content is serialized before the size check and written as it is
save(d) ==
    LET content == Dumps(d)
        cleaned == IF ByteLen(d) > MAX_SIZE THEN _cleanup(d) ELSE d
    IN  [content |-> content, data |-> cleaned]

\* a write_text that leaves an existing file as it is
write_text_exclusive(f, content) ==
    IF f.kind = "absent" THEN JsonObject(content) ELSE f

\* self.path.write_text(content, encoding='utf-8'): the file is replaced by
\* the content, whatever it held
write_text(f, content) == JsonObject(content)

----------------------------------------------------------------------------
(* The model provider and the texts exchanged with it.  A text is the      *)
(* tuple of its tokens; the token " " is white space.                      *)

\* the opening of the fallback text of trigger_emotion
Unavailable == "AI_unavailable:"
UnavailableClose == ")"
\* the fallback text of trigger_feedback_stream, which carries no detail
UnavailablePlain == <<"AI_unavailable", ")">>
\* the fixed text of the suggestion path when no task is pending
AllTasksDone == <<"all_tasks_done">>

NoError == [type |-> "none", msg |-> <<>>]
\* failures of the provider's client, all subclasses of Exception
ProviderErrors ==
    { [type |-> "RateLimitError", msg |-> <<"rate", "limit">>],
      [type |-> "APIConnectionError", msg |-> <<"connection", "error">>] }
MissingKey == [type |-> "ValueError", msg |-> <<"OPENAI_API_KEY", "unset">>]
NoneHasNoStrip == [type |-> "AttributeError", msg |-> <<"NoneType", "strip">>]
MissingPlaceholder == [type |-> "KeyError", msg |-> <<"placeholder">>]

\* message.content of a completion: plain text, and text that carries a
\* brace-delimited payload
Contents == { <<" ", "well", "done", " ">>, <<>>, <<" ">> }
PayloadContents == { <<"sure", "{", "json", "}">>, <<"{", "bad", "}">> }

\* what the provider does with one request: a completion, a completion whose
\* message.content is None, or a failure
RepliesWith(contents) ==
    { [kind |-> "ok", content |-> c, err |-> NoError] : c \in contents }
    \cup { [kind |-> "malformed", content |-> <<>>, err |-> NoError] }
    \cup { [kind |-> "error", content |-> <<>>, err |-> e] : e \in ProviderErrors }
ProviderReplies == RepliesWith(Contents)
AnalysisReplies == RepliesWith(Contents \cup PayloadContents)

RECURSIVE LStrip(_)
LStrip(text) ==
    IF text # <<>> /\ Head(text) = " " THEN LStrip(Tail(text)) ELSE text

RECURSIVE RStrip(_)
RStrip(text) ==
    IF text # <<>> /\ text[Len(text)] = " "
    THEN RStrip(SubSeq(text, 1, Len(text) - 1)) ELSE text

\* str.strip()
Strip(text) == RStrip(LStrip(text))

\* the outcome of a call: a returned text, a raised exception, a generator
Returned(text) == [kind |-> "returned", text |-> text, exc |-> NoError]
Raised(e) == [kind |-> "raised", text |-> <<>>, exc |-> e]
ReturnedGenerator == [kind |-> "generator", text |-> <<>>, exc |-> NoError]
NoOutcome == [kind |-> "none", text |-> <<>>, exc |-> NoError]

\* client.chat.completions.create(**params) followed by
\* response.choices[0].message.content.strip()
Complete(reply) ==
    IF reply.kind = "error" THEN Raised(reply.err)
    ELSE IF reply.kind = "malformed" THEN Raised(NoneHasNoStrip)
    ELSE Returned(Strip(reply.content))

----------------------------------------------------------------------------
(* ai.py: AIHandler *)

\* a get_ai_handler that falls back to a default key
get_ai_handler_default_key(key) == Returned(<<>>)

\* get_ai_handler(): the key is read from the environment
get_ai_handler(key) ==
    IF key = "" THEN Raised(MissingKey) ELSE Returned(<<>>)

\* AIHandler(config): config is None (the environment is read) or carries a key
AIHandler_init(config, key) ==
    LET api_key == IF config = None THEN key ELSE config[1]
    IN  IF api_key = "" THEN Raised(MissingKey) ELSE Returned(<<>>)

\* the tasks handed to the suggestion and chat paths
Todos == UNION { [1..n -> [done : BOOLEAN]] : n \in 0..MaxTodos }
Incomplete(todos) == { i \in 1..Len(todos) : ~todos[i].done }

\* the result of a call: its outcome and the provider requests it issued
Result(out, requests) == [out |-> out, requests |-> requests]

\* a suggest_next without the check for pending tasks
suggest_next_always_asks(todos, reply) == Result(Complete(reply), 1)

suggest_next(todos, reply) ==
    IF Incomplete(todos) = {} THEN Result(Returned(AllTasksDone), 0)
    ELSE Result(Complete(reply), 1)

chat(todos, reply) == Result(Complete(reply), 1)

enhance_input(text, reply) ==
    LET r == Complete(reply)
    IN  IF r.kind = "returned" /\ r.text = <<>>
        THEN Result(Returned(text), 1)
        ELSE Result(r, 1)

----------------------------------------------------------------------------
(* emotion.py: EmotionEngine, the scenarios and trigger_emotion *)

\* EMOTION_SCENARIOS
EMOTION_SCENARIOS ==
    { [name |-> "task_completed", max_tokens |-> 60, stream |-> FALSE],
      [name |-> "list_cleared", max_tokens |-> 200, stream |-> FALSE],
      [name |-> "task_added", max_tokens |-> 60, stream |-> FALSE],
      [name |-> "suggest", max_tokens |-> 300, stream |-> TRUE] }

\* the placeholders a scenario's prompt_template may name (the templates are
\* imported from the prompts module)
Templates == { {"time_context"}, {"task_text", "task_priority", "time_context"} }

\* the keyword arguments a caller passes as context; incomplete_count stands
\* for a count above 0
Contexts == { {}, {"task_text", "task_priority"}, {"incomplete_count"} }

\* get_context_for_ai(): the empty string while the profile holds no data
HasProfileContext(d) ==
    \/ d.stats.total_tasks > 0
    \/ d.stats.current_streak > 0
    \/ get_peak_hours(d, 2) # <<>>
    \/ DOMAIN d.task_categories # {}

\* _prepare_context(**context): the keys of the enhanced context; a profile
\* that cannot be loaded contributes nothing
_prepare_context(context, f, enc, clock) ==
    LET loaded == _load_or_create(f, enc, clock)
        profile_key ==
            IF /\ loaded.exc = "none"
               /\ ("task_text" \in context \/ "incomplete_count" \in context)
               /\ HasProfileContext(loaded.data)
            THEN {"user_profile"} ELSE {}
    IN  context \cup {"time_context"} \cup profile_key

\* a generate that repeats a failed request once
generate_retrying(stream, reply) ==
    IF stream THEN Result(ReturnedGenerator, 0)
    ELSE IF Complete(reply).kind = "raised" THEN Result(Complete(reply), 2)
    ELSE Result(Complete(reply), 1)

\* EmotionEngine.generate: a streaming call returns the generator at once,
\* and the request is issued when the generator is first advanced
generate(stream, reply) ==
    IF stream THEN Result(ReturnedGenerator, 0)
    ELSE Result(Complete(reply), 1)

\* a fallback text that leaves the error out
FallbackTextNoDetail(e) == <<Unavailable, UnavailableClose>>

\* the fallback text of trigger_emotion: the marker around str(e)
FallbackText(e) == <<Unavailable>> \o e.msg \o <<UnavailableClose>>

\* placeholders are those of scenario.prompt_template
trigger_emotion(scenario, placeholders, context, key, f, enc, clock, reply) ==
    LET enhanced == _prepare_context(context, f, enc, clock)
    IN  IF ~(placeholders \subseteq enhanced)
        THEN Result(Raised(MissingPlaceholder), 0)
        ELSE IF get_ai_handler(key).kind = "raised"
        THEN Result(get_ai_handler(key), 0)
        ELSE LET r == generate(scenario.stream, reply)
             IN  IF r.out.kind = "raised"
                 THEN Result(Returned(FallbackText(r.out.exc)), r.requests)
                 ELSE r

\* re.search(r'\{.*\}', response, re.DOTALL): from the first opening brace to
\* the last closing brace behind it, or None
JsonMatch(text) ==
    LET opens == { i \in 1..Len(text) : text[i] = "{" }
        first == CHOOSE i \in opens : \A j \in opens : i <= j
        closes == { i \in 1..Len(text) : text[i] = "}" /\ i > first }
        last == CHOOSE i \in closes : \A j \in closes : j <= i
    IN  IF opens = {} THEN None
        ELSE IF closes = {} THEN None
        ELSE Some(SubSeq(text, first, last))

\* json.loads accepts the payload
JsonValid(payload) ==
    \A i \in 2..(Len(payload) - 1) : payload[i] = "json"

JSONDecodeError == [type |-> "JSONDecodeError", msg |-> <<"Expecting", "value">>]

\* response[:50] if len(response) > 50 else response
FeedbackLimit == 50
Truncated(response) ==
    IF Len(response) > FeedbackLimit THEN SubSeq(response, 1, FeedbackLimit)
    ELSE response

\* the three results of trigger_unified_analysis; text is task_feedback, or
\* the parsed payload
ParsedResult(payload) == [kind |-> "parsed", text |-> payload, exc |-> NoError]
PendingResult(response) ==
    [kind |-> "pending", text |-> Truncated(response), exc |-> NoError]
UnknownResult(e) == [kind |-> "unknown", text |-> FallbackText(e), exc |-> NoError]

\* trigger_unified_analysis with json.loads outside the try block
trigger_unified_analysis_loads_outside(key, reply) ==
    IF get_ai_handler(key).kind = "raised"
    THEN Result(get_ai_handler(key), 0)
    ELSE LET r == generate(FALSE, reply)
             m == JsonMatch(r.out.text)
         IN  IF r.out.kind = "raised"
             THEN Result(UnknownResult(r.out.exc), r.requests)
             ELSE IF m = None
             THEN Result(PendingResult(r.out.text), r.requests)
             ELSE IF JsonValid(m[1])
             THEN Result(ParsedResult(m[1]), r.requests)
             ELSE Result(Raised(JSONDecodeError), r.requests)

\* trigger_unified_analysis that answers a payload json.loads rejects with
\* the placeholder result
trigger_unified_analysis_placeholder_on_reject(key, reply) ==
    IF get_ai_handler(key).kind = "raised"
    THEN Result(get_ai_handler(key), 0)
    ELSE LET r == generate(FALSE, reply)
             m == JsonMatch(r.out.text)
         IN  IF r.out.kind = "raised"
             THEN Result(UnknownResult(r.out.exc), r.requests)
             ELSE IF m = None
             THEN Result(PendingResult(r.out.text), r.requests)
             ELSE IF JsonValid(m[1])
             THEN Result(ParsedResult(m[1]), r.requests)
             ELSE Result(PendingResult(r.out.text), r.requests)

trigger_unified_analysis(key, reply) ==
    IF get_ai_handler(key).kind = "raised"
    THEN Result(get_ai_handler(key), 0)
    ELSE LET r == generate(FALSE, reply)
             m == JsonMatch(r.out.text)
         IN  IF r.out.kind = "raised"
             THEN Result(UnknownResult(r.out.exc), r.requests)
             ELSE IF m = None
             THEN Result(PendingResult(r.out.text), r.requests)
             ELSE IF JsonValid(m[1])
             THEN Result(ParsedResult(m[1]), r.requests)
             ELSE Result(UnknownResult(JSONDecodeError), r.requests)

\* the keys of the two structures trigger_unified_analysis builds itself
StructuredKeys == {"user_type", "strengths_weaknesses", "risk_alerts", "task_feedback"}

\* the keys of a result of trigger_unified_analysis; the keys of a parsed
\* payload are the provider's
ResultKeys(out) ==
    IF out.kind \in {"pending", "unknown"} THEN StructuredKeys ELSE {}

----------------------------------------------------------------------------
(* api.py and cli.py: the callers of enhance_input.  TodoManager.add is    *)
(* taken to store the text it is handed.                                   *)

\* the text of the task the user enters
InputText == <<"buy", "milk">>

\* the task stored by manager.add(text), with the fields of the response
Added(text, original_text, feedback) ==
    [ kind |-> "added", text |-> text, exc |-> NoError,
      original_text |-> original_text, feedback |-> feedback ]

\* print(..., file=sys.stderr); sys.exit(1)
Exit(message) ==
    [ kind |-> "exit", text |-> message, exc |-> NoError,
      original_text |-> None, feedback |-> None ]

\* the keyword arguments create_todo passes to trigger_emotion
AddedContext == {"task_text", "task_priority", "total_count", "incomplete_count"}

\* POST /api/todos: create_todo(todo, ai)
create_todo(text, ai, key, placeholders, f, enc, clock, reply, feedback_reply) ==
    LET enhancing == ai /\ key # ""
        e == enhance_input(text, reply)
        enhanced == IF enhancing /\ e.out.kind = "returned" THEN e.out.text ELSE text
        original_text == IF enhancing /\ text # enhanced THEN Some(text) ELSE None
        fb == trigger_emotion([name |-> "task_added", max_tokens |-> 60, stream |-> FALSE],
                              placeholders, AddedContext, key, f, enc, clock,
                              feedback_reply)
        feedback == IF key # "" /\ fb.out.kind = "returned"
                    THEN Some(fb.out.text) ELSE None
    IN  Result(Added(enhanced, original_text, feedback),
               (IF enhancing THEN e.requests ELSE 0)
               + (IF key # "" THEN fb.requests ELSE 0))

\* todo add TEXT [--ai]: the add branch of main()
cli_add(text, ai, key, reply) ==
    LET stripped == Strip(text)
        e == enhance_input(stripped, reply)
    IN  IF ~ai THEN Result(Added(stripped, None, None), 0)
        ELSE IF key = "" THEN Result(Exit(<<"--ai", "needs", "OPENAI_API_KEY">>), 0)
        ELSE IF e.out.kind = "returned"
        THEN Result(Added(e.out.text, None, None), e.requests)
        ELSE IF e.out.exc.type = "ValueError"
        THEN Result(Exit(e.out.exc.msg), e.requests)
        ELSE Result(e.out, e.requests)

----------------------------------------------------------------------------
(* Generators: _generate_stream, suggest_next_stream, chat_stream and      *)
(* trigger_feedback_stream.  A fragment is a text; chunks are the contents *)
(* of the chunks received from the provider's stream so far.               *)

\* calling a generator function runs none of its body
NewGenerator(kind, todos) ==
    [ kind |-> kind, pos |-> "created", todos |-> todos, chunks |-> <<>>,
      yielded |-> <<>>, requests |-> 0, exc |-> NoError, conn |-> "none" ]

\* delta.content of a chunk that carries text
ChunkContents == { <<"well">>, <<"done">> }

\* what the provider's stream does next: a chunk with text, the end of the
\* stream, or a failure.  The generators never close the stream themselves;
\* whether the client has released the connection when its iterator ends or
\* fails is the client's affair and is left open
StreamEvents ==
    { [kind |-> "chunk", content |-> c, err |-> NoError, released |-> FALSE] :
         c \in ChunkContents }
    \cup { [kind |-> "end", content |-> <<>>, err |-> NoError, released |-> r] :
              r \in BOOLEAN }
    \cup { [kind |-> "error", content |-> <<>>, err |-> e, released |-> r] :
              e \in ProviderErrors, r \in BOOLEAN }

\* the connection of g after its stream has ended or failed
Released(g, ev) ==
    [g EXCEPT !.conn = IF ev.released THEN "closed" ELSE @]

\* k chunks without content
Empties(k) == [i \in 1..k |-> <<>>]

\* an exception of the provider inside the generator: trigger_feedback_stream
\* catches it and yields its fallback text, the others let it out
OnError(g, e) ==
    IF g.kind = "trigger_feedback_stream"
    THEN [g EXCEPT !.pos = "yielded_fallback",
                   !.yielded = Append(@, UnavailablePlain)]
    ELSE [g EXCEPT !.pos = "failed", !.exc = e]

\* a loop that hands out the newest fragment ahead of the earlier ones
Advance_newest_first(g, k, ev) ==
    LET g1 == [g EXCEPT !.chunks = @ \o Empties(k)]
    IN  IF ev.kind = "chunk"
        THEN [g1 EXCEPT !.chunks = Append(@, ev.content),
                        !.yielded = <<ev.content>> \o @,
                        !.pos = "streaming"]
        ELSE IF ev.kind = "end"
        THEN [Released(g1, ev) EXCEPT !.pos = "exhausted"]
        ELSE OnError(Released(g1, ev), ev.err)

\* the loop over the provider's stream, up to the next yield: k chunks
\* without content are skipped, then comes ev
Advance(g, k, ev) ==
    LET g1 == [g EXCEPT !.chunks = @ \o Empties(k)]
    IN  IF ev.kind = "chunk"
        THEN [g1 EXCEPT !.chunks = Append(@, ev.content),
                        !.yielded = Append(@, ev.content),
                        !.pos = "streaming"]
        ELSE IF ev.kind = "end"
        THEN [Released(g1, ev) EXCEPT !.pos = "exhausted"]
        ELSE OnError(Released(g1, ev), ev.err)

\* next(g): refused is the failure of the request itself, or NoError
GeneratorNext(g, key, refused, k, ev) ==
    IF g.pos = "created"
    THEN IF g.kind = "suggest_next_stream" /\ Incomplete(g.todos) = {}
         THEN [g EXCEPT !.pos = "yielded_fixed",
                        !.yielded = Append(@, AllTasksDone)]
         ELSE IF /\ g.kind = "trigger_feedback_stream"
                 /\ get_ai_handler(key).kind = "raised"
         THEN [g EXCEPT !.pos = "failed", !.exc = get_ai_handler(key).exc]
         ELSE LET g1 == [g EXCEPT !.requests = @ + 1]
              IN  IF refused # NoError THEN OnError(g1, refused)
                  ELSE Advance([g1 EXCEPT !.conn = "open"], k, ev)
    ELSE IF g.pos = "streaming"
    THEN Advance(g, k, ev)
    ELSE [g EXCEPT !.pos = "exhausted"]

----------------------------------------------------------------------------
(* emotion.py: generate_async and generate_parallel on the asyncio event   *)
(* loop.  asyncio.gather wraps each generate_async coroutine in a task;    *)
(* a task's first step hands the blocking generate call to the loop's      *)
(* default executor, whose worker threads run beside the loop.  The        *)
(* default executor has min(32, cpus + 4) workers, more than a batch of    *)
(* the model has prompts, so a submitted call never waits for a worker.    *)

Prompts == {"p", "q"}
PromptLists == UNION { [1..n -> Prompts] : n \in 0..MaxPrompts }

\* message.content of the provider's completion for a prompt
Completion(p) == <<" ", "re", p, " ">>

\* what the provider does with the request for prompt p
BatchReplies(p) ==
    { [kind |-> "ok", content |-> Completion(p), err |-> NoError] }
    \cup { [kind |-> "error", content |-> <<>>, err |-> e] : e \in ProviderErrors }

\* a list of texts as the outcome of a call
ListOf(texts) == [kind |-> "list", text |-> texts, exc |-> NoError]

\* an entry of the loop's ready queue: the first step of task i ("step"), the
\* resumption of task i when its executor future is done ("wake"), gather's
\* callback for task i ("done"), the resumption of the caller ("caller")
Callback(kind, i) == [kind |-> kind, i |-> i]

\* no generate_parallel call has been made
NoBatch ==
    [ phase |-> "idle", prompts |-> <<>>, tasks |-> <<>>, ready |-> <<>>,
      outer |-> NoOutcome, nfinished |-> 0, issued |-> <<>>, order |-> <<>>,
      delivered |-> NoOutcome ]

\* generate_parallel(prompts) up to its await: gather schedules one task per
\* prompt, in the order of the prompts, and the caller is suspended on the
\* outer future; gather of nothing is a future that is done already
generate_parallel(prompts) ==
    LET n == Len(prompts)
    IN  IF n = 0
        THEN [NoBatch EXCEPT !.phase = "returned", !.outer = ListOf(<<>>),
                             !.delivered = ListOf(<<>>)]
        ELSE [ phase |-> "awaiting",
               prompts |-> prompts,
               tasks |-> [i \in 1..n |-> [st |-> "scheduled", out |-> NoOutcome]],
               ready |-> [i \in 1..n |-> Callback("step", i)],
               outer |-> NoOutcome,
               nfinished |-> 0,
               issued |-> [i \in 1..n |-> 0],
               order |-> <<>>,
               delivered |-> NoOutcome ]

\* results in the order in which the requests completed
GatherResultsInCompletionOrder(tasks, order) ==
    [i \in 1..Len(order) |-> tasks[order[i]].out.text]

\* gather's result list: the children's results in the order of the children
GatherResults(tasks, order) ==
    [i \in 1..Len(tasks) |-> tasks[i].out.text]

\* a gather that is satisfied by the first child to finish
FirstFinished(nfinished, nfuts) == nfinished >= 1

\* gather's test for the last child: nfinished == nfuts
AllFinished(nfinished, nfuts) == nfinished = nfuts

\* gather's _done_callback with return_exceptions set: a failure takes its
\* place in the list
_done_callback_return_exceptions(b, i) ==
    LET b1 == [b EXCEPT !.tasks[i].st = "joined"]
        n == b.nfinished + 1
    IN  IF b.outer # NoOutcome THEN b1
        ELSE IF AllFinished(n, Len(b.tasks))
        THEN [b1 EXCEPT !.nfinished = n,
                        !.outer = ListOf(GatherResults(b1.tasks, b1.order)),
                        !.ready = Append(@, Callback("caller", 0))]
        ELSE [b1 EXCEPT !.nfinished = n]

\* gather's _done_callback for task i (return_exceptions is False)
_done_callback(b, i) ==
    LET b1 == [b EXCEPT !.tasks[i].st = "joined"]
        n == b.nfinished + 1
    IN  IF b.outer # NoOutcome THEN b1
        ELSE IF b.tasks[i].out.kind = "raised"
        THEN [b1 EXCEPT !.outer = Raised(b.tasks[i].out.exc),
                        !.ready = Append(@, Callback("caller", 0))]
        ELSE IF AllFinished(n, Len(b.tasks))
        THEN [b1 EXCEPT !.nfinished = n,
                        !.outer = ListOf(GatherResults(b1.tasks, b1.order)),
                        !.ready = Append(@, Callback("caller", 0))]
        ELSE [b1 EXCEPT !.nfinished = n]

\* the loop runs the callback cb
RunCallback(b, cb) ==
    IF cb.kind = "step"
    THEN [b EXCEPT !.tasks[cb.i].st = "submitted"]
    ELSE IF cb.kind = "wake"
    THEN [b EXCEPT !.tasks[cb.i].st = "finished",
                   !.ready = Append(@, Callback("done", cb.i))]
    ELSE IF cb.kind = "done"
    THEN _done_callback(b, cb.i)
    ELSE [b EXCEPT !.phase = IF b.outer.kind = "raised" THEN "raised"
                              ELSE "returned",
                   !.delivered = b.outer]

----------------------------------------------------------------------------
(* task_analyzer.py, and the time-of-day helper of emotion.py.  The labels  *)
(* stand for the source's Chinese labels.                                   *)

\* get_time_context with bands closed at both ends
get_time_context_closed(hour) ==
    IF 6 <= hour /\ hour <= 9 THEN "morning"
    ELSE IF 9 <= hour /\ hour <= 12 THEN "late_morning"
    ELSE IF 12 <= hour /\ hour <= 14 THEN "noon"
    ELSE IF 14 <= hour /\ hour <= 18 THEN "afternoon"
    ELSE IF 18 <= hour /\ hour <= 22 THEN "evening"
    ELSE "late_night"

\* task_analyzer.get_time_context(), hour being datetime.now().hour
get_time_context(hour) ==
    IF 6 <= hour /\ hour < 9 THEN "morning"
    ELSE IF 9 <= hour /\ hour < 12 THEN "late_morning"
    ELSE IF 12 <= hour /\ hour < 14 THEN "noon"
    ELSE IF 14 <= hour /\ hour < 18 THEN "afternoon"
    ELSE IF 18 <= hour /\ hour < 22 THEN "evening"
    ELSE "late_night"

\* emotion._get_time_context(), hour being datetime.now().hour
_get_time_context(hour) ==
    IF 6 <= hour /\ hour < 9 THEN "morning"
    ELSE IF 9 <= hour /\ hour < 12 THEN "late_morning"
    ELSE IF 12 <= hour /\ hour < 14 THEN "noon"
    ELSE IF 14 <= hour /\ hour < 18 THEN "afternoon"
    ELSE IF 18 <= hour /\ hour < 22 THEN "evening"
    ELSE "late_night"

\* ANXIETY_KEYWORDS in the order of the dictionary: a keyword is the tuple of
\* its code points, a weight is in hundredths
ANXIETY_KEYWORDS ==
    << [word |-> <<24517, 39035>>, weight |-> 55],
       [word |-> <<27515, 23450, 20102>>, weight |-> 55],
       [word |-> <<26469, 19981, 21450>>, weight |-> 55],
       [word |-> <<26469, 19981, 21450, 20102>>, weight |-> 55],
       [word |-> <<32039, 24613>>, weight |-> 35],
       [word |-> <<39532, 19978>>, weight |-> 35],
       [word |-> <<36214, 32039>>, weight |-> 35],
       [word |-> <<24555, 28857>>, weight |-> 35],
       [word |-> <<27809, 21150, 27861>>, weight |-> 20],
       [word |-> <<23849, 28291>>, weight |-> 20],
       [word |-> <<23436, 34507>>, weight |-> 20],
       [word |-> <<23613, 24555>>, weight |-> 10],
       [word |-> <<25235, 32039>>, weight |-> 10],
       [word |-> <<26368, 22909>>, weight |-> 10],
       [word |-> <<24212, 35813>>, weight |-> 10],
       [word |-> <<100, 101, 97, 100, 108, 105, 110, 101>>, weight |-> 30],
       [word |-> <<117, 114, 103, 101, 110, 116>>, weight |-> 30],
       [word |-> <<101, 109, 101, 114, 103, 101, 110, 99, 121>>, weight |-> 60] >>

\* str.lower() on ASCII letters and CJK characters
Lower(text) ==
    [i \in 1..Len(text) |-> IF text[i] \in 65..90 THEN text[i] + 32 ELSE text[i]]

\* sorted(ANXIETY_KEYWORDS.items(), key=lambda x: len(x[0]), reverse=True)
sorted_keywords ==
    LET indexed == [i \in 1..Len(ANXIETY_KEYWORDS) |->
                       <<ANXIETY_KEYWORDS[i], Len(ANXIETY_KEYWORDS[i].word)>>]
        sorted == SortByCountDesc(indexed)
    IN  [i \in 1..Len(sorted) |-> sorted[i][1]]

\* text.find(keyword, start): positions count from 0, -1 is no occurrence
Find(text, keyword, start) ==
    LET hits == { p \in start..(Len(text) - Len(keyword)) :
                     SubSeq(text, p + 1, p + Len(keyword)) = keyword }
    IN  IF hits = {} THEN -1 ELSE CHOOSE p \in hits : \A q \in hits : p <= q

\* an overlap test that never finds an overlap
OverlapsNever(pos, keyword_end, matched_positions) == FALSE

\* any(not (keyword_end <= existing_start or pos >= existing_end) ...)
Overlaps(pos, keyword_end, matched_positions) ==
    \E i \in 1..Len(matched_positions) :
        ~(keyword_end <= matched_positions[i][1] \/ pos >= matched_positions[i][2])

\* the while loop over the occurrences of one keyword, from position start
RECURSIVE ScanKeyword(_, _, _, _)
ScanKeyword(text_lower, entry, start, acc) ==
    LET pos == Find(text_lower, Lower(entry.word), start)
        keyword_end == pos + Len(entry.word)
    IN  IF pos = -1 THEN acc
        ELSE ScanKeyword(text_lower, entry, pos + 1,
                IF Overlaps(pos, keyword_end, acc.matched_positions) THEN acc
                ELSE [ anxiety_level |-> acc.anxiety_level + entry.weight,
                       found_keywords |-> Append(acc.found_keywords, entry.word),
                       matched_positions |->
                           Append(acc.matched_positions, <<pos, keyword_end>>) ])

\* the for loop over sorted_keywords, from its i-th entry
RECURSIVE ScanKeywords(_, _, _)
ScanKeywords(text_lower, i, acc) ==
    IF i > Len(sorted_keywords) THEN acc
    ELSE ScanKeywords(text_lower, i + 1,
                      ScanKeyword(text_lower, sorted_keywords[i], 0, acc))

\* detect_emotion(text): the EmotionResult, and the final value of the local
\* matched_positions
detect_emotion(text) ==
    LET r == ScanKeywords(Lower(text), 1,
                          [ anxiety_level |-> 0, found_keywords |-> <<>>,
                            matched_positions |-> <<>> ])
    IN  [ anxiety_level |-> IF r.anxiety_level < 100 THEN r.anxiety_level ELSE 100,
          keywords |-> r.found_keywords,
          matched_positions |-> r.matched_positions ]

\* the characters of the task texts of the model, and the texts
TextChars == {26469, 19981, 21450, 20102, 23613, 24555, 28857}
Texts == UNION { [1..n -> TextChars] : n \in 0..MaxTextLen }

----------------------------------------------------------------------------
(* Calls into the orchestrator and the generators it hands out *)

NoReply == [kind |-> "none", content |-> <<>>, err |-> NoError]

\* no call has been made
NoCall ==
    [ op |-> "none", scenario |-> "", context |-> {}, config |-> None,
      todos |-> <<>>, reply |-> NoReply, out |-> NoOutcome, requests |-> 0 ]

\* no generator has been handed out
NoGenerator ==
    [ kind |-> "none", pos |-> "none", todos |-> <<>>, chunks |-> <<>>,
      yielded |-> <<>>, requests |-> 0, exc |-> NoError, conn |-> "none" ]

\* a process that has not touched the model provider
AIIdle ==
    /\ apiKey = "sk"
    /\ handler = FALSE
    /\ call = NoCall
    /\ gen = NoGenerator
    /\ par = NoBatch

----------------------------------------------------------------------------
(* The profile session *)

\* no query has been made, or its result is no longer held
NoQuery == [op |-> "none", arg |-> <<>>, out |-> <<>>]

Constructed == data # Unconstructed

TypeOK ==
    /\ now.day \in StartDay..(StartDay + MaxDay) /\ now.hour \in AllHours
    /\ locale \in Locales
    /\ file.kind \in {"absent", "unreadable", "invalid", "array", "object"}
    /\ events \in 0..Max(MaxEvents, MaxPeakEvents)

\* a session whose profile was created fresh at the first day of the model
Init ==
    /\ now \in [day : {StartDay}, hour : ClockHours]
    /\ locale = "utf-8"
    /\ file = NoFile
    /\ data = _create_new(now)
    /\ raised = "none"
    /\ lastOp = "init"
    /\ events = 0
    /\ saves = 0
    /\ peak = None
    /\ query = NoQuery
    /\ peer = Unconstructed
    /\ written = <<>>
    /\ taskText = <<>>
    /\ AIIdle

\* UserProfile(path): the constructor loads the file or creates a new profile
UserProfileInit ==
    LET r == _load_or_create(file, locale, now)
    IN  /\ data' = r.data
        /\ raised' = r.exc
        /\ file' = r.file
        /\ lastOp' = "init"
        /\ query' = NoQuery
        /\ UNCHANGED <<now, locale, events, saves, peak, taskText, aiVars, par,
                   peerVars>>

\* profile.record_task(todo, action), at most limit calls per behaviour
RecordTaskUpTo(limit) ==
    /\ Constructed
    /\ events < limit
    /\ \E text \in TodoTexts, action \in {"add", "complete", "delete"} :
          /\ data' = record_task(data, text, action, now)
          /\ lastOp' = action
    /\ events' = events + 1
    /\ raised' = "none"
    /\ query' = NoQuery
    /\ UNCHANGED <<now, locale, file, saves, peak, taskText, aiVars, par,
                   peerVars>>

RecordTask == RecordTaskUpTo(MaxEvents)

\* profile.save()
Save ==
    /\ Constructed
    /\ saves < MaxSaves
    /\ saves' = saves + 1
    /\ IF file.kind = "unreadable"
       THEN /\ raised' = "PermissionError"
            /\ UNCHANGED <<file, data>>
       ELSE /\ raised' = "none"
            /\ file' = write_text(file, save(data).content)
            /\ data' = save(data).data
    /\ lastOp' = "save"
    /\ UNCHANGED <<now, locale, events, peak, query, taskText, aiVars, par,
                   peerVars>>

\* profile.get_completion_rate()
GetCompletionRate ==
    /\ Constructed
    /\ query' = [op |-> "get_completion_rate", arg |-> <<>>,
                 out |-> get_completion_rate(data)]
    /\ UNCHANGED <<now, locale, file, data, raised, lastOp, events, saves, peak,
                   taskText, aiVars, par,
                   peerVars>>

\* time passes: a later hour of the day, or the next day
AdvanceClock ==
    /\ \E t \in [day : StartDay..(StartDay + MaxDay), hour : ClockHours] :
          /\ \/ t.day = now.day /\ t.hour > now.hour
             \/ t.day = now.day + 1
          /\ now' = t
    /\ UNCHANGED <<locale, file, data, raised, lastOp, events, saves, peak,
                   query, taskText, aiVars, par,
                   peerVars>>

Next == RecordTask \/ AdvanceClock \/ GetCompletionRate

Spec == Init /\ [][Next]_vars

----------------------------------------------------------------------------
(* Persistence: sessions that load and save the profile file *)

\* any platform encoding and any file found at the path; no profile object yet
InitFile ==
    /\ now \in [day : {StartDay}, hour : ClockHours]
    /\ locale \in Locales
    /\ file \in InitialFiles
    /\ data = Unconstructed
    /\ raised = "none"
    /\ lastOp = "none"
    /\ events = 0
    /\ saves = 0
    /\ peak = None
    /\ query = NoQuery
    /\ peer = Unconstructed
    /\ written = <<>>
    /\ taskText = <<>>
    /\ AIIdle

FileRecordTask == RecordTaskUpTo(MaxFileEvents)

\* the context collection of trigger_emotion: _prepare_context(**context)
\* constructs a UserProfile of its own on the file
PrepareContext ==
    /\ \E context \in Contexts :
          query' = [op |-> "_prepare_context", arg |-> context,
                    out |-> _prepare_context(context, file, locale, now)]
    /\ file' = _load_or_create(file, locale, now).file
    /\ UNCHANGED <<now, locale, data, raised, lastOp, events, saves, peak,
                   taskText, aiVars, par,
                   peerVars>>

NextFile ==
    \/ UserProfileInit
    \/ FileRecordTask
    \/ Save
    \/ GetCompletionRate
    \/ PrepareContext

SpecFile == InitFile /\ [][NextFile]_vars

\* sessions that find a profile file of more than MAX_SIZE bytes
InitSize ==
    /\ now \in [day : {StartDay}, hour : ClockHours]
    /\ locale = "utf-8"
    /\ file = OversizedFile
    /\ data = Unconstructed
    /\ raised = "none"
    /\ lastOp = "none"
    /\ events = 0
    /\ saves = 0
    /\ peak = None
    /\ query = NoQuery
    /\ peer = Unconstructed
    /\ written = <<>>
    /\ taskText = <<>>
    /\ AIIdle

NextSize == UserProfileInit \/ FileRecordTask \/ Save

SpecSize == InitSize /\ [][NextSize]_vars

----------------------------------------------------------------------------
(* Two sessions: two UserProfile objects on the same path, in two          *)
(* processes whose calls interleave                                        *)

Sessions == {"a", "b"}

\* self.data of the profile object of session s
SessionData(s) == IF s = "a" THEN data ELSE peer

\* the profile file both sessions start from: absent, or saved earlier
SessionFiles ==
    { NoFile,
      JsonObject(Dumps(record_task(_create_new([day |-> StartDay, hour |-> 9]),
                                   {"bug"}, "add",
                                   [day |-> StartDay, hour |-> 9]))) }

InitSessions ==
    /\ now = [day |-> StartDay, hour |-> 9]
    /\ locale = "utf-8"
    /\ file \in SessionFiles
    /\ data = Unconstructed
    /\ raised = "none"
    /\ lastOp = "none"
    /\ events = 0
    /\ saves = 0
    /\ peak = None
    /\ query = NoQuery
    /\ peer = Unconstructed
    /\ written = <<>>
    /\ taskText = <<>>
    /\ AIIdle

\* session s constructs UserProfile(path)
SessionInit ==
    /\ \E s \in Sessions :
          /\ SessionData(s) = Unconstructed
          /\ LET r == _load_or_create(file, locale, now)
             IN  /\ raised' = r.exc
                 /\ file' = r.file
                 /\ IF s = "a" THEN data' = r.data /\ peer' = peer
                               ELSE peer' = r.data /\ data' = data
    /\ lastOp' = "init"
    /\ UNCHANGED <<now, locale, events, saves, peak, query, taskText, written,
                   aiVars, par>>

\* session s calls profile.record_task(todo, action)
SessionRecordTask ==
    /\ events < MaxSessionEvents
    /\ \E s \in Sessions, text \in TodoTexts, action \in {"add", "complete", "delete"} :
          /\ SessionData(s) # Unconstructed
          /\ LET d == record_task(SessionData(s), text, action, now)
             IN  IF s = "a" THEN data' = d /\ peer' = peer
                           ELSE peer' = d /\ data' = data
          /\ lastOp' = action
    /\ events' = events + 1
    /\ raised' = "none"
    /\ UNCHANGED <<now, locale, file, saves, peak, query, taskText, written,
                   aiVars, par>>

\* session s calls profile.save()
SessionSave ==
    /\ saves < MaxSaves
    /\ \E s \in Sessions :
          /\ SessionData(s) # Unconstructed
          /\ LET r == save(SessionData(s))
             IN  /\ file' = write_text(file, r.content)
                 /\ written' = Append(written, [by |-> s, content |-> r.content])
                 /\ IF s = "a" THEN data' = r.data /\ peer' = peer
                               ELSE peer' = r.data /\ data' = data
    /\ saves' = saves + 1
    /\ raised' = "none"
    /\ lastOp' = "save"
    /\ UNCHANGED <<now, locale, events, peak, query, taskText, aiVars, par>>

NextSessions == SessionInit \/ SessionRecordTask \/ SessionSave

SpecSessions == InitSessions /\ [][NextSessions]_vars

----------------------------------------------------------------------------
(* Peak hours: completions at any hour of one day, and get_peak_hours *)

InitPeak ==
    /\ now = [day |-> StartDay, hour |-> 0]
    /\ locale = "utf-8"
    /\ file = NoFile
    /\ data = _create_new(now)
    /\ raised = "none"
    /\ lastOp = "init"
    /\ events = 0
    /\ saves = 0
    /\ peak = None
    /\ query = NoQuery
    /\ peer = Unconstructed
    /\ written = <<>>
    /\ taskText = <<>>
    /\ AIIdle

\* the clock has moved on to hour h when a task is completed
PeakComplete ==
    /\ events < MaxPeakEvents
    /\ \E h \in {x \in PeakClockHours : x >= now.hour} :
          /\ now' = [now EXCEPT !.hour = h]
          /\ data' = record_task(data, {}, "complete", now')
    /\ events' = events + 1
    /\ lastOp' = "complete"
    /\ peak' = None
    /\ UNCHANGED <<locale, file, raised, saves, query, taskText, aiVars, par,
                   peerVars>>

\* profile.get_peak_hours(top_n)
GetPeakHours ==
    /\ \E top_n \in 0..MaxTopN :
          peak' = Some([top_n |-> top_n, hours |-> get_peak_hours(data, top_n)])
    /\ lastOp' = "get_peak_hours"
    /\ UNCHANGED <<now, locale, file, data, raised, events, saves, query, taskText,
                   aiVars, par,
                   peerVars>>

NextPeak == PeakComplete \/ GetPeakHours

SpecPeak == InitPeak /\ [][NextPeak]_vars

----------------------------------------------------------------------------
(* Time of day: the clock runs hour by hour and both classifiers read it *)

InitTime ==
    /\ now = [day |-> StartDay, hour |-> 0]
    /\ locale = "utf-8"
    /\ file = NoFile
    /\ data = Unconstructed
    /\ raised = "none"
    /\ lastOp = "none"
    /\ events = 0
    /\ saves = 0
    /\ peak = None
    /\ query = NoQuery
    /\ peer = Unconstructed
    /\ written = <<>>
    /\ taskText = <<>>
    /\ AIIdle

\* an hour passes
Tick ==
    /\ now.hour < 23 \/ now.day < StartDay + MaxDay
    /\ now' = IF now.hour < 23 THEN [now EXCEPT !.hour = @ + 1]
              ELSE [day |-> now.day + 1, hour |-> 0]
    /\ query' = NoQuery
    /\ UNCHANGED <<locale, file, data, raised, lastOp, events, saves, peak,
                   taskText, aiVars, par,
                   peerVars>>

\* task_analyzer.get_time_context()
GetTimeContext ==
    /\ query' = [op |-> "get_time_context", arg |-> <<now.hour>>,
                 out |-> get_time_context(now.hour)]
    /\ UNCHANGED <<now, locale, file, data, raised, lastOp, events, saves, peak,
                   taskText, aiVars, par,
                   peerVars>>

\* emotion._get_time_context()
EmotionGetTimeContext ==
    /\ query' = [op |-> "_get_time_context", arg |-> <<now.hour>>,
                 out |-> _get_time_context(now.hour)]
    /\ UNCHANGED <<now, locale, file, data, raised, lastOp, events, saves, peak,
                   taskText, aiVars, par,
                   peerVars>>

NextTime == Tick \/ GetTimeContext \/ EmotionGetTimeContext

SpecTime == InitTime /\ [][NextTime]_vars

----------------------------------------------------------------------------
(* Emotion detection: detect_emotion on the text of a task *)

InitEmotion ==
    /\ now = [day |-> StartDay, hour |-> 9]
    /\ locale = "utf-8"
    /\ file = NoFile
    /\ data = Unconstructed
    /\ raised = "none"
    /\ lastOp = "none"
    /\ events = 0
    /\ saves = 0
    /\ peak = None
    /\ query = NoQuery
    /\ peer = Unconstructed
    /\ written = <<>>
    /\ taskText \in Texts
    /\ AIIdle

\* detect_emotion(text)
DetectEmotion ==
    /\ query' = [op |-> "detect_emotion", arg |-> taskText,
                 out |-> detect_emotion(taskText)]
    /\ UNCHANGED <<now, locale, file, data, raised, lastOp, events, saves, peak,
                   taskText, aiVars, par,
                   peerVars>>

NextEmotion == DetectEmotion

SpecEmotion == InitEmotion /\ [][NextEmotion]_vars

----------------------------------------------------------------------------
(* The orchestrator: a process that calls the feedback, suggestion and     *)
(* chat paths against a provider that may fail                             *)

\* the profile files _prepare_context may find
ProfileFiles ==
    { JsonArray,
      JsonObject(Dumps(record_task(_create_new([day |-> StartDay, hour |-> 9]),
                                   {"bug"}, "complete",
                                   [day |-> StartDay, hour |-> 9]))) }

InitAI ==
    /\ now = [day |-> StartDay, hour |-> 9]
    /\ locale = "utf-8"
    /\ file \in ProfileFiles
    /\ data = Unconstructed
    /\ raised = "none"
    /\ lastOp = "none"
    /\ events = 0
    /\ saves = 0
    /\ peak = None
    /\ query = NoQuery
    /\ peer = Unconstructed
    /\ written = <<>>
    /\ taskText = <<>>
    /\ apiKey \in {"", "sk"}
    /\ handler = FALSE
    /\ call = NoCall
    /\ gen = NoGenerator
    /\ par = NoBatch

\* The process handles one result at a time: a call made while an earlier
\* call's generator is still referenced drops that generator.

\* the provider replies only to a request that reaches it
RepliesIfAsked(requests, replies) == IF requests = 0 THEN {NoReply} ELSE replies

\* the record of a call; a reply is recorded only if a request was issued
Called(op, scenario, context, config, todos, reply, r) ==
    [ op |-> op, scenario |-> scenario, context |-> context, config |-> config,
      todos |-> todos, reply |-> IF r.requests = 0 THEN NoReply ELSE reply,
      out |-> r.out, requests |-> r.requests ]

\* ai = get_ai_handler()
GetAIHandler ==
    /\ call' = Called("get_ai_handler", "", {}, None, <<>>, NoReply,
                      Result(get_ai_handler(apiKey), 0))
    /\ handler' = (get_ai_handler(apiKey).kind = "returned")
    /\ gen' = NoGenerator
    /\ UNCHANGED <<profileVars, par, apiKey>>

\* ai = AIHandler(config)
AIHandlerInit ==
    /\ \E config \in {None, Some(""), Some("sk")} :
          /\ call' = Called("AIHandler", "", {}, config, <<>>, NoReply,
                            Result(AIHandler_init(config, apiKey), 0))
          /\ handler' = (AIHandler_init(config, apiKey).kind = "returned")
    /\ gen' = NoGenerator
    /\ UNCHANGED <<profileVars, par, apiKey>>

\* trigger_emotion(scenario, **context); a streaming scenario hands out the
\* generator of _generate_stream
TriggerEmotion ==
    /\ \E scenario \in EMOTION_SCENARIOS, placeholders \in Templates,
          context \in Contexts :
       \E reply \in RepliesIfAsked(
                       trigger_emotion(scenario, placeholders, context, apiKey,
                                       file, locale, now, NoReply).requests,
                       ProviderReplies) :
          LET r == trigger_emotion(scenario, placeholders, context, apiKey,
                                   file, locale, now, reply)
          IN  /\ call' = Called("trigger_emotion", scenario.name, context,
                                None, <<>>, reply, r)
              /\ gen' = IF r.out.kind = "generator"
                        THEN NewGenerator("_generate_stream", <<>>)
                        ELSE NoGenerator
    /\ UNCHANGED <<profileVars, par, apiKey, handler>>

\* trigger_unified_analysis(...)
TriggerUnifiedAnalysis ==
    /\ \E reply \in RepliesIfAsked(
                       trigger_unified_analysis(apiKey, NoReply).requests,
                       AnalysisReplies) :
          call' = Called("trigger_unified_analysis", "", {}, None, <<>>, reply,
                         trigger_unified_analysis(apiKey, reply))
    /\ gen' = NoGenerator
    /\ UNCHANGED <<profileVars, par, apiKey, handler>>

\* trigger_feedback_stream(...): a generator function
TriggerFeedbackStream ==
    /\ call' = Called("trigger_feedback_stream", "", {}, None, <<>>, NoReply,
                      Result(ReturnedGenerator, 0))
    /\ gen' = NewGenerator("trigger_feedback_stream", <<>>)
    /\ UNCHANGED <<profileVars, par, apiKey, handler>>

\* ai.suggest_next(todos)
SuggestNext ==
    /\ handler
    /\ \E todos \in Todos :
       \E reply \in RepliesIfAsked(suggest_next(todos, NoReply).requests,
                                   ProviderReplies) :
          call' = Called("suggest_next", "", {}, None, todos, reply,
                         suggest_next(todos, reply))
    /\ gen' = NoGenerator
    /\ UNCHANGED <<profileVars, par, apiKey, handler>>

\* ai.chat(user_input, todos)
Chat ==
    /\ handler
    /\ \E todos \in Todos, reply \in ProviderReplies :
          call' = Called("chat", "", {}, None, todos, reply, chat(todos, reply))
    /\ gen' = NoGenerator
    /\ UNCHANGED <<profileVars, par, apiKey, handler>>

\* ai.enhance_input(text)
EnhanceInput ==
    /\ handler
    /\ \E reply \in ProviderReplies :
          call' = Called("enhance_input", "", {}, None, <<>>, reply,
                         enhance_input(<<"buy", "milk">>, reply))
    /\ gen' = NoGenerator
    /\ UNCHANGED <<profileVars, par, apiKey, handler>>

\* the record of a call of one of the callers of enhance_input
CalledFrom(op, ai, text, reply, feedback_reply, r) ==
    [ op |-> op, scenario |-> "", context |-> {}, config |-> None, todos |-> <<>>,
      reply |-> reply, out |-> r.out, requests |-> r.requests,
      ai |-> ai, text |-> text, feedback_reply |-> feedback_reply ]

\* POST /api/todos?ai=...
CreateTodo ==
    /\ \E ai \in BOOLEAN, placeholders \in Templates :
       \E reply \in RepliesIfAsked(IF ai /\ apiKey # "" THEN 1 ELSE 0,
                                   ProviderReplies) :
       \E feedback_reply \in RepliesIfAsked(
                       IF apiKey = "" THEN 0
                       ELSE trigger_emotion(
                                [name |-> "task_added", max_tokens |-> 60,
                                 stream |-> FALSE],
                                placeholders, AddedContext, apiKey, file, locale,
                                now, NoReply).requests,
                       ProviderReplies) :
          call' = CalledFrom("create_todo", ai, InputText, reply, feedback_reply,
                             create_todo(InputText, ai, apiKey, placeholders, file,
                                         locale, now, reply, feedback_reply))
    /\ gen' = NoGenerator
    /\ UNCHANGED <<profileVars, par, apiKey, handler>>

\* todo add TEXT [--ai]
CliAdd ==
    /\ \E ai \in BOOLEAN :
       \E reply \in RepliesIfAsked(IF ai /\ apiKey # "" THEN 1 ELSE 0,
                                   ProviderReplies) :
          call' = CalledFrom("cli_add", ai, InputText, reply, NoReply,
                             cli_add(InputText, ai, apiKey, reply))
    /\ gen' = NoGenerator
    /\ UNCHANGED <<profileVars, par, apiKey, handler>>

\* ai.suggest_next_stream(todos): a generator function
SuggestNextStream ==
    /\ handler
    /\ \E todos \in Todos :
          /\ call' = Called("suggest_next_stream", "", {}, None, todos, NoReply,
                            Result(ReturnedGenerator, 0))
          /\ gen' = NewGenerator("suggest_next_stream", todos)
    /\ UNCHANGED <<profileVars, par, apiKey, handler>>

\* ai.chat_stream(user_input, todos): a generator function
ChatStream ==
    /\ handler
    /\ \E todos \in Todos :
          /\ call' = Called("chat_stream", "", {}, None, todos, NoReply,
                            Result(ReturnedGenerator, 0))
          /\ gen' = NewGenerator("chat_stream", todos)
    /\ UNCHANGED <<profileVars, par, apiKey, handler>>

\* the consumer advances the generator by one step
Pull ==
    /\ gen.pos \in {"created", "streaming", "yielded_fixed", "yielded_fallback"}
    /\ \E refused \in IF gen.pos = "created" THEN {NoError} \cup ProviderErrors
                       ELSE {NoError},
          k \in 0..(MaxChunks - Len(gen.chunks)), ev \in StreamEvents :
          /\ Len(gen.chunks) + k + (IF ev.kind = "chunk" THEN 1 ELSE 0)
                <= MaxChunks
          /\ gen' = GeneratorNext(gen, apiKey, refused, k, ev)
    /\ UNCHANGED <<profileVars, par, apiKey, handler, call>>

\* the consumer leaves its loop over the generator before the generator is
\* exhausted and pulls no more; the generator stays suspended at its yield
\* and none of its code runs
StopPulling ==
    /\ gen.pos = "streaming"
    /\ gen' = [gen EXCEPT !.pos = "abandoned"]
    /\ UNCHANGED <<profileVars, par, apiKey, handler, call>>

NextAI ==
    \/ GetAIHandler
    \/ AIHandlerInit
    \/ TriggerEmotion
    \/ TriggerUnifiedAnalysis
    \/ TriggerFeedbackStream
    \/ SuggestNext
    \/ Chat
    \/ EnhanceInput
    \/ CreateTodo
    \/ CliAdd
    \/ SuggestNextStream
    \/ ChatStream
    \/ Pull
    \/ StopPulling

SpecAI == InitAI /\ [][NextAI]_vars

----------------------------------------------------------------------------
(* Batches: one generate_parallel call, the event loop and the worker      *)
(* threads                                                                 *)

InitParallel ==
    /\ now = [day |-> StartDay, hour |-> 9]
    /\ locale = "utf-8"
    /\ file = NoFile
    /\ data = Unconstructed
    /\ raised = "none"
    /\ lastOp = "none"
    /\ events = 0
    /\ saves = 0
    /\ peak = None
    /\ query = NoQuery
    /\ peer = Unconstructed
    /\ written = <<>>
    /\ taskText = <<>>
    /\ AIIdle

\* await engine.generate_parallel(prompts)
GenerateParallel ==
    /\ par.phase = "idle"
    /\ \E prompts \in PromptLists : par' = generate_parallel(prompts)
    /\ UNCHANGED <<profileVars, aiVars>>

\* the event loop runs the callback at the head of its ready queue
LoopStep ==
    /\ par.ready # <<>>
    /\ par' = RunCallback([par EXCEPT !.ready = Tail(@)], Head(par.ready))
    /\ UNCHANGED <<profileVars, aiVars>>

\* a worker thread takes up the call for prompt i and issues its request
WorkerStart ==
    /\ \E i \in 1..Len(par.tasks) :
          /\ par.tasks[i].st = "submitted"
          /\ par' = [par EXCEPT !.tasks[i].st = "running", !.issued[i] = @ + 1]
    /\ UNCHANGED <<profileVars, aiVars>>

\* the request for prompt i completes or fails, and the worker thread hands
\* the outcome to the loop
WorkerFinish ==
    /\ \E i \in 1..Len(par.tasks) :
          /\ par.tasks[i].st = "running"
          /\ \E reply \in BatchReplies(par.prompts[i]) :
                par' = [par EXCEPT !.tasks[i].st = "completed",
                                   !.tasks[i].out = generate(FALSE, reply).out,
                                   !.order = Append(@, i),
                                   !.ready = Append(@, Callback("wake", i))]
    /\ UNCHANGED <<profileVars, aiVars>>

NextParallel == GenerateParallel \/ LoopStep \/ WorkerStart \/ WorkerFinish

SpecParallel == InitParallel /\ [][NextParallel]_vars

----------------------------------------------------------------------------
(* Properties of the profile store *)

IsCompletion == events' = events + 1 /\ lastOp' = "complete"

\* C1: over record_task(item, 'complete') calls on non-decreasing dates, the
\* first completion sets current_streak to 1, a completion on the day after
\* last_completed_date raises it by exactly 1, a completion two or more days
\* after last_completed_date sets it to 1, and a further completion on the
\* day of last_completed_date leaves it unchanged.
C1_StreakSteps ==
    [][IsCompletion =>
         LET last == data.stats.last_completed_date
             before == data.stats.current_streak
             after == data'.stats.current_streak
             gap == now.day - FromIsoFormat(last[1])
         IN  /\ last = None => after = 1
             /\ last # None /\ gap = 1 => after = before + 1
             /\ last # None /\ gap >= 2 => after = 1
             /\ last # None /\ gap = 0 => after = before]_vars

\* a streak of two days was broken by a gap and restarted at 1
C1_Witness ==
    /\ data.stats.longest_streak = 2
    /\ data.stats.current_streak = 1
    /\ data.stats.completed_tasks = 3

Activity(h) == data.hourly_activity[h]

\* C8: save() followed by constructing a UserProfile on the same path yields
\* in-memory data equal to the saved data.
C8_SaveLoadRoundTrip ==
    [][(lastOp = "save" /\ raised = "none" /\ lastOp' = "init") =>
         (raised' = "none" /\ data' = data)]_vars

IsFresh(d) ==
    /\ d # Unconstructed
    /\ d.stats = [ total_tasks |-> 0, completed_tasks |-> 0, current_streak |-> 0,
                   longest_streak |-> 0, last_completed_date |-> None ]
    /\ d.hourly_activity = [h \in 0..23 |-> 0]
    /\ d.task_categories = <<>>
    /\ d.recent_7_days = [tasks_completed |-> 0, most_active_hour |-> None]

\* the file is no profile document of the current version
NotAProfile(f) ==
    \/ f.kind \in {"absent", "unreadable", "invalid", "array"}
    \/ f.kind = "object" /\ ("version" \notin DOMAIN f.doc \/ f.doc.version # VERSION)

\* C9: loading a profile never raises, and a file that is absent, unreadable,
\* not a valid profile document or of another version yields a fresh
\* zero-valued profile.
C9_LoadFailsSoft ==
    lastOp = "init" =>
        /\ raised = "none"
        /\ NotAProfile(file) => IsFresh(data)

\* C11: get_completion_rate fails with no division by zero; it returns
\* exactly 0.0 when total_tasks is 0, whatever completed_tasks is, and the
\* quotient completed_tasks / total_tasks otherwise.
C11_CompletionRate ==
    query.op = "get_completion_rate" =>
        /\ query.out.exc = "none"
        /\ data.stats.total_tasks = 0 => query.out = Float(0, 1)
        /\ data.stats.total_tasks # 0 =>
              /\ query.out.den > 0
              /\ query.out.num * data.stats.total_tasks
                    = data.stats.completed_tasks * query.out.den

\* the rate was asked of a profile with completions and no task
C11_Witness ==
    /\ query.op = "get_completion_rate"
    /\ data.stats.total_tasks = 0
    /\ data.stats.completed_tasks > 0

\* the size in bytes of the document a save has written
FileBytes(f) == ByteLen(Loads(f.doc, "utf-8"))

C17_OnlySaveWrites ==
    [][file' # file => (lastOp' = "save" /\ saves' = saves + 1)]_vars

\* a profile was constructed on a file of another version and changed by
\* record_task, then the context was collected, and the file is as it was
C17_Witness ==
    /\ file = JsonObject([version |-> VERSION + 1])
    /\ lastOp \in {"add", "complete", "delete"}
    /\ events = MaxFileEvents
    /\ query.op = "_prepare_context"

\* the content on disk of file f, as a constructor on a UTF-8 platform
\* would load it
OnDisk(f) == Loads(f.doc, "utf-8")

\* C26: with two sessions on one profile file, the file holds after every
\* save exactly the state of the session that saved last, whatever the file
\* held and whatever the other session recorded or saved before: nothing is
\* merged and no save is refused.
C26_LastWriteWins ==
    /\ [](written # <<>> =>
            /\ file = JsonObject(written[Len(written)].content)
            /\ Len(written) = saves)
    /\ [][ written' # written =>
             \E s \in Sessions :
                /\ written' = Append(written, [by |-> s, content |-> Dumps(SessionData(s))])
                /\ OnDisk(file') = SessionData(s) ]_vars

\* both sessions loaded the absent file; "a" recorded an add and saved it,
\* then "b" saved its completion: the file holds no task
C26_Witness ==
    /\ Len(written) = 2
    /\ written[1] = [by |-> "a", content |-> Dumps(data)]
    /\ written[2] = [by |-> "b", content |-> Dumps(peer)]
    /\ data.stats.total_tasks = 1
    /\ peer.stats.completed_tasks = 1
    /\ OnDisk(file).stats.total_tasks = 0
    /\ OnDisk(file).stats.completed_tasks = 1

\* the step is a record_task call with the given action
Recorded(action) == events' = events + 1 /\ lastOp' = action

\* C18: from a fresh profile, longest_streak is never below current_streak,
\* never decreases, and is at every step the maximum of its old value and
\* the new current_streak: the greatest value current_streak has taken.
C18_LongestIsRunningMax ==
    /\ data.stats.longest_streak = 0 /\ data.stats.current_streak = 0
    /\ [](data.stats.longest_streak >= data.stats.current_streak)
    /\ [][ /\ data'.stats.longest_streak >= data.stats.longest_streak
           /\ data'.stats.longest_streak
                 = Max(data.stats.longest_streak, data'.stats.current_streak) ]_vars

\* a streak of two days was broken: the current streak is 1 again, the
\* longest is still 2
C18_Witness ==
    /\ lastOp = "complete"
    /\ events = 3
    /\ data.stats.current_streak = 1
    /\ data.stats.longest_streak = 2

\* C19: record_task(item, 'delete') sets total_tasks to max(0, total_tasks - 1)
\* and leaves completed_tasks, the streak fields, last_completed_date,
\* hourly_activity, task_categories and recent_7_days as they are;
\* total_tasks is never negative.
C19_DeleteFrame ==
    /\ [](data.stats.total_tasks >= 0)
    /\ [][ Recorded("delete") =>
             /\ data'.stats.total_tasks = Max(0, data.stats.total_tasks - 1)
             /\ data'.stats.completed_tasks = data.stats.completed_tasks
             /\ data'.stats.current_streak = data.stats.current_streak
             /\ data'.stats.longest_streak = data.stats.longest_streak
             /\ data'.stats.last_completed_date = data.stats.last_completed_date
             /\ data'.hourly_activity = data.hourly_activity
             /\ data'.task_categories = data.task_categories
             /\ data'.recent_7_days = data.recent_7_days ]_vars

\* a delete met a profile without tasks that holds a completion
C19_Witness ==
    /\ lastOp = "delete"
    /\ events = 2
    /\ data.stats.total_tasks = 0
    /\ data.stats.completed_tasks = 1
    /\ data.stats.current_streak = 1

\* C20: completed_tasks never decreases; 'complete' adds exactly 1 to it and
\* leaves total_tasks, 'add' adds exactly 1 to total_tasks and leaves
\* completed_tasks, 'delete' leaves completed_tasks.
C20_CompletedMonotone ==
    [][ /\ data'.stats.completed_tasks >= data.stats.completed_tasks
        /\ Recorded("complete") =>
              /\ data'.stats.completed_tasks = data.stats.completed_tasks + 1
              /\ data'.stats.total_tasks = data.stats.total_tasks
        /\ Recorded("add") =>
              /\ data'.stats.completed_tasks = data.stats.completed_tasks
              /\ data'.stats.total_tasks = data.stats.total_tasks + 1
        /\ Recorded("delete") =>
              data'.stats.completed_tasks = data.stats.completed_tasks ]_vars

\* a task was completed and then deleted, and another task added
C20_Witness ==
    /\ lastOp = "add"
    /\ events = 3
    /\ data.stats.completed_tasks = 1
    /\ data.stats.total_tasks = 1
    /\ data.stats.last_completed_date # None

\* C21: hourly_activity always has exactly 24 counters, none negative; a
\* 'complete' adds exactly 1 to the slot of the current hour and leaves
\* every other slot, and 'add' and 'delete' leave every slot.
C21_HourlyActivity ==
    /\ [](/\ DOMAIN data.hourly_activity = 0..23
          /\ Cardinality(DOMAIN data.hourly_activity) = 24
          /\ \A h \in 0..23 : Activity(h) >= 0)
    /\ [][ /\ Recorded("complete") =>
                \A h \in 0..23 :
                    data'.hourly_activity[h]
                      = IF h = now'.hour THEN Activity(h) + 1 ELSE Activity(h)
           /\ Recorded("add") \/ Recorded("delete") =>
                data'.hourly_activity = data.hourly_activity ]_vars

\* one completion in the morning and two in the evening
C21_Witness ==
    /\ lastOp = "complete"
    /\ Activity(9) = 1
    /\ Activity(22) = 2
    /\ \A h \in 0..23 \ {9, 22} : Activity(h) = 0

\* C22: completed_tasks <= total_tasks is not kept: where the two counters
\* are equal, a 'complete', and a 'delete' of one of the tasks, each leave
\* completed_tasks above total_tasks, because neither adjusts the other
\* counter; such a state is reached from a fresh profile.
C22_CompletedMayExceedTotal ==
    [][ /\ data.stats.completed_tasks = data.stats.total_tasks =>
            /\ Recorded("complete") =>
                  data'.stats.completed_tasks > data'.stats.total_tasks
            /\ Recorded("delete") /\ data.stats.total_tasks > 0 =>
                  data'.stats.completed_tasks > data'.stats.total_tasks
        /\ data.stats.completed_tasks > data.stats.total_tasks =>
            /\ Recorded("complete") \/ Recorded("delete") =>
                  data'.stats.completed_tasks > data'.stats.total_tasks ]_vars

\* a task was added, completed and deleted: one completion, no task
C22_Witness ==
    /\ lastOp = "delete"
    /\ events = 3
    /\ data.stats.completed_tasks = 1
    /\ data.stats.total_tasks = 0
    /\ data.stats.completed_tasks > data.stats.total_tasks

\* the greatest count of the all-time histogram
MaxActivity == CHOOSE m \in { Activity(h) : h \in 0..23 } :
                   \A h \in 0..23 : m >= Activity(h)

\* C29: most_active_hour is absent exactly when no completion has been
\* recorded, and otherwise names an hour whose count is the maximum of the
\* histogram; a completion moves it only to an hour whose count has become
\* strictly greater, so among tied hours the first to reach the maximum stays.
C29_MostActiveHour ==
    /\ [](LET m == data.recent_7_days.most_active_hour
          IN  /\ m = None <=> data.stats.completed_tasks = 0
              /\ m # None => m[1] \in 0..23 /\ Activity(m[1]) = MaxActivity)
    /\ [][ LET m == data.recent_7_days.most_active_hour
               after == data'.recent_7_days.most_active_hour
           IN  /\ Recorded("complete") /\ m # None =>
                     after = IF data'.hourly_activity[now'.hour]
                                  > data'.hourly_activity[m[1]]
                             THEN Some(now'.hour) ELSE m
               /\ ~Recorded("complete") => after = m ]_vars

\* two hours are tied and the later hour of the day, which came first, is named
C29_Witness ==
    /\ data.recent_7_days.most_active_hour = Some(22)
    /\ Activity(9) = 1
    /\ Activity(22) = 1

\* the sum of 'completed' over the entries of task_categories with a key in S
RECURSIVE CompletedIn(_, _)
CompletedIn(cats, S) ==
    IF S = {} THEN 0
    ELSE LET c == CHOOSE x \in S : TRUE
         IN  cats[c].completed + CompletedIn(cats, S \ {c})

----------------------------------------------------------------------------
(* Properties of the orchestrator *)

\* part occurs in text
Contains(text, part) ==
    \E i \in 0..(Len(text) - Len(part)) : SubSeq(text, i + 1, i + Len(part)) = part

\* the exception a failed request raises inside the calling code
UnderlyingError(reply) ==
    IF reply.kind = "error" THEN reply.err ELSE NoneHasNoStrip

RequestFailed(c) == c.requests = 1 /\ c.reply.kind \in {"error", "malformed"}

ProviderFailure(e) == e \in ProviderErrors \cup {NoneHasNoStrip}

\* C3: on every feedback, suggestion and chat path, streaming ones included,
\* a provider failure is never delivered to the caller or to the consumer of
\* the fragments as a raised exception.
C3_NoRawProviderException ==
    /\ call.op \in {"trigger_emotion", "trigger_unified_analysis",
                    "suggest_next", "chat"}
          => ~(call.out.kind = "raised" /\ ProviderFailure(call.out.exc))
    /\ ~ProviderFailure(gen.exc)

\* C6: with no pending task in the list, suggest_next returns the fixed text
\* and suggest_next_stream yields it as its single fragment, and neither
\* issues a request to the provider.
C6_NoPendingShortCircuit ==
    /\ (call.op = "suggest_next" /\ Incomplete(call.todos) = {}) =>
          /\ call.out = Returned(AllTasksDone)
          /\ call.requests = 0
    /\ (gen.kind = "suggest_next_stream" /\ Incomplete(gen.todos) = {}) =>
          /\ gen.requests = 0
          /\ gen.exc = NoError
          /\ gen.pos \in {"created", "yielded_fixed", "exhausted"}
          /\ gen.yielded = IF gen.pos = "created" THEN <<>> ELSE <<AllTasksDone>>

\* suggest_next was handed a list of two tasks, both done
C6_Witness ==
    /\ call.op = "suggest_next"
    /\ Len(call.todos) = 2
    /\ Incomplete(call.todos) = {}
    /\ call.out = Returned(AllTasksDone)

\* the key AIHandler(config) looks at
EffectiveKey(c) == IF c.config = None THEN apiKey ELSE c.config[1]

\* C7: without an API key, get_ai_handler and AIHandler() raise a ValueError
\* that names OPENAI_API_KEY, trigger_emotion and trigger_unified_analysis
\* let it reach the caller without a request being issued, and a provider
\* failure on these two paths is returned, not raised.
C7_MissingKeyNotDegraded ==
    /\ (call.op = "get_ai_handler" /\ apiKey = "") => call.out = Raised(MissingKey)
    /\ (call.op = "AIHandler" /\ EffectiveKey(call) = "") =>
          call.out = Raised(MissingKey)
    /\ (call.out.exc = MissingKey) =>
          /\ call.out.exc.type = "ValueError"
          /\ Contains(call.out.exc.msg, <<"OPENAI_API_KEY">>)
    /\ ( /\ call.op \in {"trigger_emotion", "trigger_unified_analysis"}
         /\ apiKey = ""
         /\ call.out.exc # MissingPlaceholder ) =>
          /\ call.out = Raised(MissingKey)
          /\ call.requests = 0
    /\ ( /\ call.op \in {"trigger_emotion", "trigger_unified_analysis"}
         /\ RequestFailed(call) ) =>
          /\ call.out.kind # "raised"
          /\ Contains(call.out.text, <<Unavailable>>)

\* trigger_unified_analysis was called without a key
C7_Witness ==
    /\ call.op = "trigger_unified_analysis"
    /\ apiKey = ""
    /\ call.out = Raised(MissingKey)

\* the provider's reply leaves trigger_unified_analysis without a result of
\* the provider's own: the call failed, the completion holds no brace-delimited
\* payload, or the payload is not valid JSON
NoUsablePayload(reply) ==
    \/ reply.kind \in {"error", "malformed"}
    \/ /\ reply.kind = "ok"
       /\ \/ JsonMatch(Strip(reply.content)) = None
          \/ ~JsonValid(JsonMatch(Strip(reply.content))[1])

\* C14 as stated: trigger_unified_analysis never raises, and when the model
\* call fails, the completion has no structured payload or the payload is not
\* valid JSON, it returns a result with the keys user_type,
\* strengths_weaknesses, risk_alerts and task_feedback.
C14_NeverRaises ==
    call.op = "trigger_unified_analysis" =>
        /\ call.out.kind # "raised"
        /\ (call.requests = 1 /\ NoUsablePayload(call.reply)) =>
              ResultKeys(call.out) = StructuredKeys

\* C14, amended: trigger_unified_analysis raises only the ValueError of a
\* missing API key, before any request; once the request is made, a failed
\* call, a completion without payload and a payload that is not valid JSON
\* each yield a result with the four keys.
C14_StructuredUnlessNoKey ==
    call.op = "trigger_unified_analysis" =>
        /\ call.out.kind = "raised" <=> apiKey = ""
        /\ apiKey = "" => call.out = Raised(MissingKey) /\ call.requests = 0
        /\ apiKey # "" => call.requests = 1
        /\ (call.requests = 1 /\ NoUsablePayload(call.reply)) =>
              ResultKeys(call.out) = StructuredKeys

\* the completion carried a brace-delimited payload that is not valid JSON
C14_Witness ==
    /\ call.op = "trigger_unified_analysis"
    /\ call.reply.kind = "ok"
    /\ call.reply.content = <<"{", "bad", "}">>
    /\ call.out.kind = "unknown"
    /\ Contains(call.out.text, JSONDecodeError.msg)

PayloadMissing(c) ==
    /\ c.op = "trigger_unified_analysis" /\ c.requests = 1
    /\ c.reply.kind = "ok"
    /\ JsonMatch(Strip(c.reply.content)) = None

\* the completion of a unified analysis holds a payload json.loads rejects
PayloadRejected(c) ==
    /\ c.op = "trigger_unified_analysis" /\ c.requests = 1
    /\ c.reply.kind = "ok"
    /\ JsonMatch(Strip(c.reply.content)) # None
    /\ ~JsonValid(JsonMatch(Strip(c.reply.content))[1])

EnhancementFailed(c) ==
    /\ c.op \in {"create_todo", "cli_add"}
    /\ c.ai
    /\ c.reply # NoReply
    /\ \/ c.reply.kind \in {"error", "malformed"}
       \/ Strip(c.reply.content) = <<>>

\* C15: through the HTTP create route and through the CLI's add --ai, an
\* enhancement that comes back empty or whose model call fails ends with the
\* task stored under the original input text, no error being raised or shown.
C15_EnhancementFallsBack ==
    EnhancementFailed(call) =>
        /\ call.out.kind = "added"
        /\ call.out.text = call.text

----------------------------------------------------------------------------
(* Properties of the streaming generators *)

\* the chunk carries text
HasContent(content) == content # <<>>

\* the concatenation of the texts of a sequence
RECURSIVE Joined(_)
Joined(texts) ==
    IF texts = <<>> THEN <<>> ELSE Head(texts) \o Joined(Tail(texts))

\* C27: the fragments a streaming generate has yielded are the contents of
\* the chunks received so far that carry text, one fragment per chunk and in
\* the order of arrival, so that their concatenation is the concatenation of
\* the contents of all chunks; a pull yields at most one further fragment,
\* and the generator is exhausted only by the end of the provider's stream.
C27_FragmentsInOrder ==
    /\ [](gen.kind = "_generate_stream" =>
            /\ gen.yielded = SelectSeq(gen.chunks, HasContent)
            /\ Joined(gen.yielded) = Joined(gen.chunks)
            /\ gen.requests \in {0, 1})
    /\ [][ gen.kind = "_generate_stream" /\ gen'.kind = "_generate_stream"
             /\ gen.pos # "created" /\ gen'.pos # "created" /\ gen' # gen =>
             /\ gen.pos = "streaming"
             /\ \/ gen'.pos = "streaming"
                   /\ Len(gen'.yielded) = Len(gen.yielded) + 1
                   /\ SubSeq(gen'.yielded, 1, Len(gen.yielded)) = gen.yielded
                   /\ gen'.yielded[Len(gen'.yielded)] = gen'.chunks[Len(gen'.chunks)]
                \/ gen'.pos \in {"exhausted", "failed", "abandoned"}
                   /\ gen'.yielded = gen.yielded ]_vars

\* a stream of a chunk without content and a chunk with text has ended
C27_Witness ==
    /\ gen.kind = "_generate_stream"
    /\ gen.pos = "exhausted"
    /\ gen.chunks = <<<<>>, <<"done">>>>
    /\ gen.yielded = <<<<"done">>>>

\* the generator has been left for good: exhausted, failed, ended after its
\* fallback, or abandoned by its consumer
Left(g) == g.pos \in {"exhausted", "failed", "yielded_fallback", "abandoned"}

\* C28: when a streaming generator that opened a provider stream is left,
\* whether exhausted, failed in mid-stream or abandoned by a consumer that
\* stopped pulling, the provider stream has been closed.
C28_ReleasedOnEveryExit ==
    (gen.conn # "none" /\ Left(gen)) => gen.conn = "closed"

----------------------------------------------------------------------------
(* Properties of generate_parallel *)

Batch == 1..Len(par.tasks)

\* the request for prompt i has completed or failed
RequestOver(i) == par.tasks[i].st \in {"completed", "finished", "joined"}

\* the caller of generate_parallel has been resumed
CallerResumed == par.phase \in {"returned", "raised"}

AllStartedFirst ==
    (\E i \in Batch : par.tasks[i].st \in {"finished", "joined"}) =>
        \A j \in Batch : par.tasks[j].st # "scheduled"

\* the caller never holds a list shorter than the batch
NoPartialList ==
    par.delivered.kind = "list" => Len(par.delivered.text) = Len(par.prompts)

\* C5 as stated: all N requests are started before any result is awaited,
\* the caller stays suspended until all N requests have completed, and no
\* partial result list is handed back.
C5_JoinAllBarrier ==
    /\ AllStartedFirst
    /\ CallerResumed => \A i \in Batch : RequestOver(i)
    /\ NoPartialList

\* C5, amended: all N calls are handed to the executor before the result of
\* any of them is taken up; the caller is resumed either with the complete
\* list, after all N requests have completed successfully, or with the
\* failure of a request that has failed, possibly while other requests are
\* still running; it never receives a partial list.
C5_JoinAllUnlessFailure ==
    /\ AllStartedFirst
    /\ par.outer.kind = "list" =>
          \A i \in Batch : par.tasks[i].st = "joined"
                           /\ par.tasks[i].out.kind = "returned"
    /\ par.outer.kind = "raised" =>
          \E i \in Batch : par.tasks[i].st = "joined"
                           /\ par.tasks[i].out = par.outer
    /\ CallerResumed => par.delivered = par.outer /\ par.outer # NoOutcome
    /\ NoPartialList

\* the caller was resumed with a failure while another request was running
C5_Witness ==
    /\ par.phase = "raised"
    /\ \E i \in Batch : par.tasks[i].st = "running"

\* the request for prompt i has failed
RequestRaised(i) == par.tasks[i].out.kind = "raised"

\* the batch has come to rest: every request is over and joined, and the
\* loop has nothing left to run
BatchAtRest ==
    /\ par.phase # "idle"
    /\ par.ready = <<>>
    /\ \A i \in Batch : par.tasks[i].st = "joined"

\* C24: generate_parallel is all-or-nothing: a caller that receives a list
\* receives one text per prompt, in the order of the prompts, and no request
\* of the batch has failed; the outer future fails with the failure of the
\* request whose failure gather takes up first; and once the batch has come
\* to rest, the caller has been raised that failure if any request failed,
\* and has the list otherwise.
C24_AllOrNothing ==
    /\ [](/\ par.delivered.kind \in {"none", "list", "raised"}
          /\ par.delivered.kind = "list" =>
                /\ par.phase = "returned"
                /\ Len(par.delivered.text) = Len(par.prompts)
                /\ \A i \in Batch :
                      /\ ~RequestRaised(i)
                      /\ par.delivered.text[i] = Strip(Completion(par.prompts[i]))
          /\ par.delivered.kind = "raised" =>
                /\ par.phase = "raised"
                /\ \E i \in Batch : RequestRaised(i) /\ par.delivered = par.tasks[i].out
          /\ BatchAtRest =>
                IF \E i \in Batch : RequestRaised(i)
                THEN par.phase = "raised" /\ par.delivered.kind = "raised"
                ELSE par.phase = "returned" /\ par.delivered.kind = "list")
    /\ [][ par.outer = NoOutcome /\ par'.outer.kind = "raised" =>
             \E i \in Batch :
                /\ par.tasks[i].st = "finished" /\ par'.tasks[i].st = "joined"
                /\ par'.outer = par.tasks[i].out ]_vars

\* a batch of three came to rest with two completions and one failure, and
\* the caller was raised the failure
C24_Witness ==
    /\ BatchAtRest
    /\ Len(par.prompts) = 3
    /\ par.phase = "raised"
    /\ Cardinality({ i \in Batch : RequestRaised(i) }) = 1
    /\ par.tasks[2].out.kind = "raised"
    /\ par.delivered = par.tasks[2].out

----------------------------------------------------------------------------
(* Peak hours *)

\* C10: get_peak_hours(top_n) returns at most top_n hours, each with a count
\* above 0, by descending count and, among equal counts, ascending hour; it
\* returns the empty list when all counts are 0.
C10_PeakHours ==
    peak # None =>
        LET hours == peak[1].hours
            top_n == peak[1].top_n
        IN  /\ Len(hours) <= top_n
            /\ \A i \in 1..Len(hours) : hours[i] \in 0..23 /\ Activity(hours[i]) > 0
            /\ \A i, j \in 1..Len(hours) :
                  i < j => \/ Activity(hours[i]) > Activity(hours[j])
                           \/ /\ Activity(hours[i]) = Activity(hours[j])
                              /\ hours[i] < hours[j]
            /\ (\A h \in 0..23 : Activity(h) = 0) => hours = <<>>

\* a query answered with a tie between two hours behind a busier hour
C10_Witness ==
    /\ peak # None
    /\ Len(peak[1].hours) = 3
    /\ Activity(peak[1].hours[1]) > Activity(peak[1].hours[2])
    /\ Activity(peak[1].hours[2]) = Activity(peak[1].hours[3])

----------------------------------------------------------------------------
(* Properties of the task analyzer *)

\* the hours of each time-of-day label
Bands ==
    [ morning |-> 6..8, late_morning |-> 9..11, noon |-> 12..13,
      afternoon |-> 14..17, evening |-> 18..21,
      late_night |-> (22..23) \cup (0..5) ]

\* C12: at every hour of the day each time-of-day classifier returns the one
\* label whose band holds the hour (6-8 morning, 9-11 late morning, 12-13
\* noon, 14-17 afternoon, 18-21 evening, 22-23 and 0-5 late night), no hour
\* lies in two bands, and the two classifiers agree.
C12_TimeOfDay ==
    /\ query.op \in {"get_time_context", "_get_time_context"} =>
          /\ query.arg = <<now.hour>>
          /\ query.out \in DOMAIN Bands
          /\ { l \in DOMAIN Bands : now.hour \in Bands[l] } = {query.out}
    /\ get_time_context(now.hour) = _get_time_context(now.hour)

\* the analyzer's classifier was asked at the first hour of the evening band
C12_Witness ==
    /\ query.op = "get_time_context"
    /\ query.arg = <<18>>
    /\ query.out = "evening"

\* keyword occurs in text at position p, counted from 0
OccursAt(text, keyword, p) ==
    /\ p + Len(keyword) <= Len(text)
    /\ SubSeq(text, p + 1, p + Len(keyword)) = keyword

\* two spans <<start, end>> share a character
SpansOverlap(a, b) == a[1] < b[2] /\ b[1] < a[2]

\* the weight of a keyword of the dictionary
WeightOf(word) ==
    LET i == CHOOSE j \in 1..Len(ANXIETY_KEYWORDS) : ANXIETY_KEYWORDS[j].word = word
    IN  ANXIETY_KEYWORDS[i].weight

\* C13: detect_emotion counts no overlapping keyword occurrences.  Each
\* accepted keyword entry is an occurrence of a keyword in the text, the
\* spans of the accepted occurrences are pairwise disjoint, the anxiety level
\* is the capped sum of the weights of the accepted entries alone, and an
\* occurrence that was not accepted overlaps an accepted occurrence of a
\* keyword at least as long (longest first).  A text without any keyword has
\* level 0 and no keyword entry.
C13_NoDoubleCount ==
    query.op = "detect_emotion" =>
        LET text == Lower(query.arg)
            found == query.out.keywords
            spans == query.out.matched_positions
            N == 1..Len(found)
            total == SumSeq([i \in N |-> WeightOf(found[i])])
            occurrences ==
                { <<k, p>> \in (1..Len(ANXIETY_KEYWORDS)) \X (0..Len(text)) :
                      OccursAt(text, Lower(ANXIETY_KEYWORDS[k].word), p) }
        IN  /\ Len(spans) = Len(found)
            /\ \A i \in N :
                  /\ \E k \in 1..Len(ANXIETY_KEYWORDS) : ANXIETY_KEYWORDS[k].word = found[i]
                  /\ spans[i][2] = spans[i][1] + Len(found[i])
                  /\ OccursAt(text, Lower(found[i]), spans[i][1])
            /\ \A i, j \in N : i # j => ~SpansOverlap(spans[i], spans[j])
            /\ query.out.anxiety_level = (IF total < 100 THEN total ELSE 100)
            /\ \A o \in occurrences :
                  LET word == ANXIETY_KEYWORDS[o[1]].word
                      span == <<o[2], o[2] + Len(word)>>
                  IN  \/ \E i \in N : found[i] = word /\ spans[i] = span
                      \/ \E i \in N : /\ SpansOverlap(spans[i], span)
                                       /\ Len(found[i]) >= Len(word)
            /\ occurrences = {} => query.out.anxiety_level = 0 /\ found = <<>>

\* the four-character keyword was accepted and the three-character keyword
\* inside it was not
C13_Witness ==
    /\ query.op = "detect_emotion"
    /\ query.arg = <<26469, 19981, 21450, 20102>>
    /\ query.out.keywords = << <<26469, 19981, 21450, 20102>> >>
    /\ query.out.anxiety_level = 55

====
